---- MODULE Spec2Model ----
(***************************************************************************)
(* native-timer: timers backed by the OS timer facility, with a teardown   *)
(* protocol that synchronises the destruction of a timer with the          *)
(* invocations of its handler.                                             *)
(*                                                                         *)
(* The model follows the signal based backend (src/src/unix.rs) over the   *)
(* callback cell of src/src/common.rs (MutWrapper):                        *)
(*   - create_timer hands a request to the timer-creation thread and       *)
(*     blocks for the reply;                                               *)
(*   - an expiry notification runs timer_callback, which spawns a thread   *)
(*     (SlowFunction) or forwards the cell's address to the quick worker;  *)
(*   - unsafe_call dereferences the address and runs MutWrapper::call;     *)
(*   - Drop for Timer / the fire_oneshot teardown thread run close_timer   *)
(*     and then free the cell.                                             *)
(* The address travelling through the dispatch layer is a raw pointer:     *)
(* a call through it after the cell was freed reads freed memory, and what *)
(* it reads is left open (see is_deleted).                                 *)
(***************************************************************************)
EXTENDS Integers, Sequences, FiniteSets, TLC

\* The callback cells (one per scheduled timer) that a run may create.
Cells == {"a", "b"}

\* Bound on the expiry notifications the OS delivers per timer (untimed runs).
MaxFires == 2
\* Bounds of the timed runs: clock range, due times and periods in ticks.
MaxTime == 10
MaxDue == 3
MaxPeriod == 3
\* Bound on the explicit close() calls on one Timer.
MaxCloses == 1

Hints == {"Quick", "Slow"}
\* The hints a run may give to each cell: dedicated threads touch nothing but
\* their own cell, so one cell with SlowFunction handlers is enough.
HintsOf(c) == IF c = "a" THEN Hints ELSE {"Quick"}

VARIABLES
    cell,          \* Box<MutWrapper>: "none" | "live" | "freed" | "leaked"
    kind,          \* "none" | "timer" (schedule_timer) | "oneshot" (fire_oneshot)
    hint,          \* MutWrapper.hint
    f,             \* MutWrapper.f: "None" | "Mut" | "Once"
    mark_deleted,  \* MutWrapper.mark_deleted
    idle,          \* MutWrapper.idle: the in-flight counter
    due,           \* TimerCreationUnsafeRequest.due (ticks)
    period,        \* TimerCreationUnsafeRequest.period (ticks, 0 = one-shot)
    timer_queue,   \* creation-request channel (sequence of cells)
    reply,         \* per request reply channel: "none" | "Ok" | "Err"
    created,       \* timer_create succeeded and timer_delete was not called yet
    armed,         \* the OS timer is set and can still expire
    nextExp,       \* absolute time of the next expiry of the OS timer
    fires,         \* expiry notifications delivered
    quick_queue,   \* quick-dispatch channel (sequence of cell addresses)
    worker,        \* quick worker thread: [pc, ctx]
    slow,          \* dedicated threads per cell, counted by phase
    handle,        \* Timer.handle: "None" | "Some"
    journal,       \* fire_oneshot handoff slot: "None" | "Some"
    tpc,           \* position of the thread that owns / tears down the timer
    closes,        \* calls of close/drop on the Timer so far
    deletes,       \* timer_delete calls issued for the timer
    runs,          \* executions of the user handler started
    firedBeforeClose, \* a notification had been delivered when close/drop was called
    ranBeforeClose, \* a call() had passed its flag check when close/drop was called
    busyAtClose,   \* the handler was executing when close/drop was called
    closedAt,      \* clock when close/drop was called
    timed_out,     \* the teardown wait of the cell timed out
    aborted,       \* process::abort() was called
    now,           \* clock (ticks)
    sig_panic,     \* timer_callback panicked on a closed quick-dispatch channel
    wait_result,   \* result of the wait_idle call on the cell, "none" while there is none
    wait_tries,    \* waits on the in-flight counter made by that wait_idle call
    once,          \* DEFAULT_QUEUE_ONCE: "Incomplete" | "Running" | "Complete"
    DEFAULT_QUEUE, \* static DEFAULT_QUEUE: 0 for None, else the number of the queue
    queues,        \* TimerQueue::new() calls made by default()
    dpc,           \* position of each thread calling default()
    got,           \* the queue each thread received from its last default() call
    handles,       \* TimerQueue handles of the queue that the program holds
    core,          \* the TimerQueueCore behind the Arc: "alive" | "released"
    hint_time,     \* the Duration d (ticks) the program gives in SlowFunction(d)
    timer_receiver, \* unix/mod.rs: the queue's one channel of creation results
    event,         \* unix/waitable_objects.rs: the state of a ManualResetEvent
    waiter,        \* the thread in ManualResetEvent::wait: [pc, start, timeout, ret]
    creator        \* the timer-creation thread: "running" | "exited"

vars == << cell, kind, hint, f, mark_deleted, idle, due, period, timer_queue,
           reply, created, armed, nextExp, fires, quick_queue, worker, slow, handle,
           journal, tpc, closes, deletes, runs, firedBeforeClose,
           ranBeforeClose, busyAtClose, closedAt, timed_out, aborted, now,
           sig_panic, wait_result, wait_tries, once, DEFAULT_QUEUE, queues,
           dpc, got, handles, core, hint_time, timer_receiver, event, waiter,
           creator >>

cellVars  == << cell, kind, hint, f, mark_deleted, idle >>
osVars    == << created, armed, nextExp, fires >>
reqVars   == << due, period, timer_queue, reply >>
threadVars == << quick_queue, worker, slow >>
ownerVars == << handle, journal, tpc, closes, deletes >>
ghostVars == << firedBeforeClose, ranBeforeClose, busyAtClose, closedAt,
               timed_out >>

waitVars  == << wait_result, wait_tries >>
defaultVars == << once, DEFAULT_QUEUE, queues, dpc, got >>
coreVars  == << handles, core >>
auxVars   == << hint_time, timer_receiver, event, waiter, creator >>
extVars   == << sig_panic, wait_result, wait_tries, once, DEFAULT_QUEUE, queues,
               dpc, got, handles, core, hint_time, timer_receiver, event,
               waiter, creator >>

\* The threads of the program that call TimerQueue::default().
Callers == {"t1", "t2", "t3"}

NoThreads == [start |-> 0, entered |-> 0, checked |-> 0, taken |-> 0,
              handler |-> 0, slot |-> 0, tail |-> 0]
IdleWorker == [pc |-> "idle", ctx |-> "-"]
NoWaiter == [pc |-> "idle", start |-> 0, timeout |-> 0, ret |-> FALSE]

\* The state of the library before the program has scheduled anything.
Started ==
    /\ cell = [c \in Cells |-> "none"]
    /\ kind = [c \in Cells |-> "none"]
    /\ hint = [c \in Cells |-> "Quick"]
    /\ f = [c \in Cells |-> "None"]
    /\ mark_deleted = [c \in Cells |-> FALSE]
    /\ idle = [c \in Cells |-> 0]
    /\ due = [c \in Cells |-> 0]
    /\ period = [c \in Cells |-> 0]
    /\ timer_queue = << >>
    /\ reply = [c \in Cells |-> "none"]
    /\ created = [c \in Cells |-> FALSE]
    /\ armed = [c \in Cells |-> FALSE]
    /\ nextExp = [c \in Cells |-> 0]
    /\ fires = [c \in Cells |-> 0]
    /\ quick_queue = << >>
    /\ worker = IdleWorker
    /\ slow = [c \in Cells |-> NoThreads]
    /\ handle = [c \in Cells |-> "None"]
    /\ journal = [c \in Cells |-> "None"]
    /\ tpc = [c \in Cells |-> "unused"]
    /\ closes = [c \in Cells |-> 0]
    /\ deletes = [c \in Cells |-> 0]
    /\ runs = [c \in Cells |-> 0]
    /\ firedBeforeClose = [c \in Cells |-> FALSE]
    /\ ranBeforeClose = [c \in Cells |-> FALSE]
    /\ busyAtClose = [c \in Cells |-> FALSE]
    /\ closedAt = [c \in Cells |-> 0]
    /\ timed_out = [c \in Cells |-> FALSE]
    /\ aborted = FALSE
    /\ now = 0
    /\ sig_panic = FALSE
    /\ wait_result = [c \in Cells |-> "none"]
    /\ wait_tries = [c \in Cells |-> 0]
    /\ once = "Incomplete"
    /\ DEFAULT_QUEUE = 0
    /\ queues = 0
    /\ dpc = [th \in Callers |-> "idle"]
    /\ got = [th \in Callers |-> 0]
    /\ handles = 1
    /\ core = "alive"
    /\ timer_receiver = << >>
    /\ event = FALSE
    /\ waiter = NoWaiter
    /\ creator = "running"

\* The program's SlowFunction hints all carry the same duration.
Init ==
    /\ Started
    /\ hint_time = [c \in Cells |-> 1]

\* The cell is allocated: its main_queue field holds a reference to the core.
Unfreed(c) == cell[c] \in {"live", "leaked"}

\* Drop of one Arc<TimerQueueCore>: the core is released when, with h queue
\* handles left, none of the cells cs holds a reference any more.
Arc_drop(h, cs) ==
    core' = IF h = 0 /\ \A d \in cs : ~Unfreed(d) THEN "released" ELSE core

(***************************************************************************)
(* Scheduling: TimerQueue::create_timer, the timer-creation thread and the *)
(* public schedule operations.                                             *)
(***************************************************************************)

\* MutWrapper::new: a fresh cell around a repeatable (FnMut) handler.
MutWrapper_new(c, h) ==
    /\ cell' = [cell EXCEPT ![c] = "live"]
    /\ hint' = [hint EXCEPT ![c] = h]
    /\ f' = [f EXCEPT ![c] = "Mut"]
    /\ mark_deleted' = [mark_deleted EXCEPT ![c] = FALSE]
    /\ idle' = [idle EXCEPT ![c] = 0]

\* create_timer up to the blocking recv: the cell is boxed first, then the
\* request (due, period, address of the cell) goes to the creation thread.
create_timer(c, d, p, h) ==
    /\ ~aborted
    /\ tpc[c] = "unused"
    /\ MutWrapper_new(c, h)
    /\ due' = [due EXCEPT ![c] = d]
    /\ period' = [period EXCEPT ![c] = p]
    /\ timer_queue' = Append(timer_queue, c)
    /\ tpc' = [tpc EXCEPT ![c] = "requested"]
    /\ UNCHANGED << reply, osVars, threadVars, handle, journal, closes, deletes,
                    runs, aborted, now, extVars, ghostVars >>

schedule_timer(c, d, p, h) ==
    /\ create_timer(c, d, p, h)
    /\ kind' = [kind EXCEPT ![c] = "timer"]

\* schedule_interval: the interval is both the due time and the period.
schedule_interval(c, i, h) == schedule_timer(c, i, i, h)

\* fire_oneshot: the handler is wrapped (see wrapper_*); period is ZERO.
fire_oneshot(c, d, h) ==
    /\ create_timer(c, d, 0, h)
    /\ kind' = [kind EXCEPT ![c] = "oneshot"]

\* The native calls of schedule_signal_callback, in the order they are made.
NativeCalls == << "sigemptyset", "sigaction", "timer_create", "timer_settime" >>

\* What fails in one run of schedule_signal_callback: one of the native calls,
\* or nothing.
Failures == {"none"} \cup {NativeCalls[i] : i \in 1..Len(NativeCalls)}

\* Faulty variant of schedule_signal_callback: it_value is filled from the
\* period.
schedule_signal_callback_swapped(c, failing) ==
    /\ created' = [created EXCEPT ![c] = failing \in {"none", "timer_settime"}]
    /\ IF failing = "none"
       THEN /\ armed' = [armed EXCEPT ![c] = TRUE]
            /\ nextExp' = [nextExp EXCEPT ![c] = now + period[c]]
       ELSE UNCHANGED << armed, nextExp >>

\* schedule_signal_callback: sigemptyset, sigaction, timer_create, then
\* timer_settime with it_value = due and it_interval = period; each call is
\* followed by `?`, so the first failure returns at once.
schedule_signal_callback(c, failing) ==
    /\ created' = [created EXCEPT ![c] = failing \in {"none", "timer_settime"}]
    /\ IF failing = "none"
       THEN /\ armed' = [armed EXCEPT ![c] = TRUE]
            /\ nextExp' = [nextExp EXCEPT ![c] = now + due[c]]
       ELSE UNCHANGED << armed, nextExp >>

\* The timer-creation thread: one request at a time, the result goes back on
\* the request's own reply channel.
creation_thread ==
    /\ ~aborted
    /\ timer_queue # << >>
    /\ LET c == Head(timer_queue) IN
         \E failing \in Failures :
            /\ schedule_signal_callback(c, failing)
            /\ reply' = [reply EXCEPT ![c] = IF failing = "none" THEN "Ok" ELSE "Err"]
    /\ timer_queue' = Tail(timer_queue)
    /\ UNCHANGED << cellVars, due, period, fires, threadVars, ownerVars,
                    runs, aborted, now, extVars, ghostVars >>

\* schedule_timer after the reply: Ok gives the Timer its handle, Err drops
\* the boxed cell with the result.
schedule_timer_return(c) ==
    /\ ~aborted
    /\ tpc[c] = "requested" /\ kind[c] = "timer" /\ reply[c] # "none"
    /\ IF reply[c] = "Ok"
       THEN /\ handle' = [handle EXCEPT ![c] = "Some"]
            /\ tpc' = [tpc EXCEPT ![c] = "owned"]
            /\ cell' = cell
            /\ core' = core
       ELSE /\ cell' = [cell EXCEPT ![c] = "freed"]
            /\ tpc' = [tpc EXCEPT ![c] = "failed"]
            /\ handle' = handle
            /\ Arc_drop(handles, Cells \ {c})
    /\ UNCHANGED << kind, hint, f, mark_deleted, idle, reqVars, osVars, threadVars,
                    journal, closes, deletes, runs, aborted, now, sig_panic,
                    waitVars, defaultVars, auxVars, handles, ghostVars >>

\* Faulty variant of fire_oneshot_return: fire_oneshot returns only after the
\* handler has started.
fire_oneshot_return_after_handler(c) ==
    /\ ~aborted
    /\ tpc[c] = "requested" /\ kind[c] = "oneshot" /\ reply[c] # "none"
    /\ runs[c] > 0
    /\ IF reply[c] = "Ok"
       THEN /\ journal' = [journal EXCEPT ![c] = "Some"]
            /\ tpc' = [tpc EXCEPT ![c] = "detached"]
            /\ cell' = cell
       ELSE /\ cell' = [cell EXCEPT ![c] = "leaked"]
            /\ tpc' = [tpc EXCEPT ![c] = "failed"]
            /\ journal' = journal
    /\ UNCHANGED << kind, hint, f, mark_deleted, idle, reqVars, osVars, threadVars,
                    handle, closes, deletes, runs, aborted, now, extVars, ghostVars >>

\* fire_oneshot after the reply: Box::into_raw, then the slot is written only
\* when the OS accepted the timer.
fire_oneshot_return(c) ==
    /\ ~aborted
    /\ tpc[c] = "requested" /\ kind[c] = "oneshot" /\ reply[c] # "none"
    /\ IF reply[c] = "Ok"
       THEN /\ journal' = [journal EXCEPT ![c] = "Some"]
            /\ tpc' = [tpc EXCEPT ![c] = "detached"]
            /\ cell' = cell
       ELSE /\ cell' = [cell EXCEPT ![c] = "leaked"]
            /\ tpc' = [tpc EXCEPT ![c] = "failed"]
            /\ journal' = journal
    /\ UNCHANGED << kind, hint, f, mark_deleted, idle, reqVars, osVars, threadVars,
                    handle, closes, deletes, runs, aborted, now, extVars, ghostVars >>

(***************************************************************************)
(* Expiry notifications and the dispatch layer.                            *)
(***************************************************************************)

\* Faulty variant of timer_callback: the invocation of a SlowFunction handler
\* is run by the signal handler itself.
timer_callback_inline(c) ==
    IF hint[c] = "Slow"
    THEN /\ slow' = [slow EXCEPT ![c].handler = @ + 1]
         /\ UNCHANGED << quick_queue, worker, sig_panic, aborted >>
    ELSE /\ quick_queue' = Append(quick_queue, c)
         /\ UNCHANGED << slow, worker, sig_panic, aborted >>

\* timer_callback: the signal handler reads the hint through the address and
\* either spawns a dedicated thread or forwards the address to the quick
\* worker with `dispatch_quick_call(ctx).unwrap()`: when the worker is gone
\* the send fails and the unwrap panics inside the signal handler, which ends
\* the process.
timer_callback(c) ==
    IF hint[c] = "Slow"
    THEN /\ slow' = [slow EXCEPT ![c].start = @ + 1]
         /\ UNCHANGED << quick_queue, worker, sig_panic, aborted >>
    ELSE IF worker.pc = "dead"
    THEN /\ sig_panic' = TRUE
         /\ aborted' = TRUE
         /\ UNCHANGED << quick_queue, slow, worker >>
    ELSE /\ quick_queue' = Append(quick_queue, c)
         /\ UNCHANGED << slow, worker, sig_panic, aborted >>

\* One expiry of the OS timer: a one-shot timer (it_interval = 0) does not
\* expire again.
notify(c) ==
    /\ ~aborted
    /\ armed[c]
    /\ fires' = [fires EXCEPT ![c] = @ + 1]
    /\ armed' = [armed EXCEPT ![c] = (period[c] # 0)]
    /\ timer_callback(c)
    /\ UNCHANGED << cellVars, reqVars, ownerVars, created, runs, ghostVars >>

\* Untimed runs: an armed timer may expire at any moment.
Expire(c) ==
    /\ fires[c] < MaxFires
    /\ notify(c)
    /\ UNCHANGED << now, nextExp, waitVars, defaultVars, auxVars, coreVars >>

(***************************************************************************)
(* The callback cell: MutWrapper::call with its CriticalSection, entered   *)
(* by the quick worker ("quick") or by a dedicated thread ("slow").        *)
(* Phases of an invocation: start (address in hand, call not entered),     *)
(* entered (in-flight count incremented), checked (flag loaded and found   *)
(* false, body not begun), handler (user closure running), slot / tail     *)
(* (rest of the fire_oneshot wrapper).                                     *)
(***************************************************************************)
Threads == {"quick", "slow"}

At(t, c, ph) ==
    IF t = "quick" THEN worker.pc = ph /\ worker.ctx = c ELSE slow[c][ph] > 0

\* The user handler of cell c is executing on some dispatch thread.
InHandler(c) == \E t \in Threads : At(t, c, "handler")

\* A call() on cell c has loaded the flag and found it false.
PassedCheck(c) ==
    runs[c] > 0 \/ \E t \in Threads : At(t, c, "checked") \/ At(t, c, "taken")

\* The thread leaves phase `from`; "done" ends unsafe_call.
Move(t, c, from, to) ==
    /\ At(t, c, from)
    /\ IF t = "quick"
       THEN /\ worker' = IF to = "done" THEN IdleWorker ELSE [pc |-> to, ctx |-> c]
            /\ slow' = slow
       ELSE /\ slow' = IF to = "done"
                       THEN [slow EXCEPT ![c][from] = @ - 1]
                       ELSE [slow EXCEPT ![c][from] = @ - 1, ![c][to] = @ + 1]
            /\ worker' = worker
    /\ quick_queue' = quick_queue

\* CriticalSection::start: idle.set_state_func(|v| *v + 1).
CriticalSection_start(c) == idle' = [idle EXCEPT ![c] = @ + 1]

\* Drop for CriticalSection: idle.set_state_func(|v| *v - 1).
CriticalSection_drop(c) == idle' = [idle EXCEPT ![c] = @ - 1]

\* mark_deleted.load(SeqCst) through the address: the flag of a cell that is
\* still allocated; any value once the cell was freed (dangling read).
is_deleted(c) == IF cell[c] = "freed" THEN BOOLEAN ELSE {mark_deleted[c]}

\* Variant of worker_enter in which unsafe_call spawns a thread for the call
\* and the worker goes back to the channel at once.
worker_enter_spawning ==
    /\ ~aborted
    /\ worker.pc = "idle"
    /\ quick_queue # << >>
    /\ slow' = [slow EXCEPT ![Head(quick_queue)].start = @ + 1]
    /\ quick_queue' = Tail(quick_queue)
    /\ UNCHANGED << cellVars, reqVars, osVars, worker, ownerVars, runs, aborted,
                    now, extVars, ghostVars >>

\* The quick worker takes the next address from the channel; unsafe_call
\* casts it to a cell and call() opens the critical section.
worker_enter ==
    /\ ~aborted
    /\ worker.pc = "idle"
    /\ quick_queue # << >>
    /\ LET c == Head(quick_queue) IN
         /\ worker' = [pc |-> "entered", ctx |-> c]
         /\ CriticalSection_start(c)
    /\ quick_queue' = Tail(quick_queue)
    /\ UNCHANGED << cell, kind, hint, f, mark_deleted, reqVars, osVars, slow,
                    ownerVars, runs, aborted, now, extVars, ghostVars >>

\* Faulty variant of slow_enter: call() is entered under a lock of the cell,
\* one invocation at a time.
slow_enter_exclusive(c) ==
    /\ ~aborted
    /\ idle[c] = 0
    /\ Move("slow", c, "start", "entered")
    /\ CriticalSection_start(c)
    /\ UNCHANGED << cell, kind, hint, f, mark_deleted, reqVars, osVars,
                    ownerVars, runs, aborted, now, extVars, ghostVars >>

\* A dedicated thread spawned by timer_callback begins unsafe_call.
slow_enter(c) ==
    /\ ~aborted
    /\ Move("slow", c, "start", "entered")
    /\ CriticalSection_start(c)
    /\ UNCHANGED << cell, kind, hint, f, mark_deleted, reqVars, osVars,
                    ownerVars, runs, aborted, now, extVars, ghostVars >>

\* Faulty variant of call_check: the flag is not looked at.
call_check_unchecked(t, c) ==
    /\ ~aborted
    /\ Move(t, c, "entered", "checked")
    /\ UNCHANGED << cellVars, reqVars, osVars, ownerVars, runs, aborted, now,
                    extVars, ghostVars >>

\* call(): `let is_deleted = self.mark_deleted.load(SeqCst)`; a deleted cell
\* drops the section and returns.
call_check(t, c) ==
    /\ ~aborted
    /\ \E d \in is_deleted(c) :
         IF d
         THEN /\ Move(t, c, "entered", "done")
              /\ CriticalSection_drop(c)
         ELSE /\ Move(t, c, "entered", "checked")
              /\ idle' = idle
    /\ UNCHANGED << cell, kind, hint, f, mark_deleted, reqVars, osVars, ownerVars,
                    runs, aborted, now, extVars, ghostVars >>

\* call(): `match &mut self.f`: with no body left the section is dropped; a
\* Mut body begins; for a Once body `std::mem::replace(&mut self.f,
\* FType::None)` reads the body out of the cell.  Nothing orders that read
\* and the write of None that follows it against another thread inside
\* call() on the same cell (each holds a `&mut` made from the raw address),
\* so the write is a step of its own (call_take).
call_body(t, c) ==
    /\ ~aborted
    /\ IF f[c] = "None"
       THEN /\ Move(t, c, "checked", "done")
            /\ CriticalSection_drop(c)
            /\ UNCHANGED << f, runs >>
       ELSE IF f[c] = "Once"
       THEN /\ Move(t, c, "checked", "taken")
            /\ UNCHANGED << f, runs, idle >>
       ELSE /\ Move(t, c, "checked", "handler")
            /\ runs' = [runs EXCEPT ![c] = @ + 1]
            /\ UNCHANGED << f, idle >>
    /\ UNCHANGED << cell, kind, hint, mark_deleted, reqVars, osVars, ownerVars,
                    aborted, now, extVars, ghostVars >>

\* Variant of call_take in which the body is run only if the cell still
\* holds it at the write (the take is one atomic exchange).
call_take_exchange(t, c) ==
    /\ ~aborted
    /\ IF f[c] = "Once"
       THEN /\ Move(t, c, "taken", "handler")
            /\ f' = [f EXCEPT ![c] = "None"]
            /\ runs' = [runs EXCEPT ![c] = @ + 1]
            /\ idle' = idle
       ELSE /\ Move(t, c, "taken", "done")
            /\ CriticalSection_drop(c)
            /\ UNCHANGED << f, runs >>
    /\ UNCHANGED << cell, kind, hint, mark_deleted, reqVars, osVars, ownerVars,
                    aborted, now, extVars, ghostVars >>

\* call(): the rest of mem::replace writes FType::None into the cell, and
\* `f()` runs the body that was read.
call_take(t, c) ==
    /\ ~aborted
    /\ Move(t, c, "taken", "handler")
    /\ f' = [f EXCEPT ![c] = "None"]
    /\ runs' = [runs EXCEPT ![c] = @ + 1]
    /\ UNCHANGED << cell, kind, hint, mark_deleted, idle, reqVars, osVars,
                    ownerVars, aborted, now, extVars, ghostVars >>

\* The handler of a Timer returns: drop(section), call returns Ok.
call_return(t, c) ==
    /\ ~aborted
    /\ kind[c] \in {"timer", "once"}
    /\ Move(t, c, "handler", "done")
    /\ CriticalSection_drop(c)
    /\ UNCHANGED << cell, kind, hint, f, mark_deleted, reqVars, osVars, ownerVars,
                    runs, aborted, now, extVars, ghostVars >>

\* fire_oneshot's wrapper: handler() has returned, the wrapper now waits on
\* the journal (wait_reset with no timeout).
wrapper_wait(t, c) ==
    /\ ~aborted
    /\ kind[c] = "oneshot"
    /\ Move(t, c, "handler", "slot")
    /\ UNCHANGED << cellVars, reqVars, osVars, ownerVars, runs, aborted, now, extVars, ghostVars >>

\* Faulty variant of wrapper_spawn: the wrapper starts close_timer itself, on
\* the thread that ran the handler.
wrapper_spawn_inline(t, c) ==
    /\ ~aborted
    /\ journal[c] = "Some"
    /\ Move(t, c, "slot", "tail")
    /\ journal' = [journal EXCEPT ![c] = "None"]
    /\ mark_deleted' = [mark_deleted EXCEPT ![c] = TRUE]
    /\ tpc' = [tpc EXCEPT ![c] = "d_wait"]
    /\ UNCHANGED << cell, kind, hint, f, idle, reqVars, osVars, handle, closes,
                    deletes, runs, aborted, now, extVars, ghostVars >>

\* Faulty variant of wrapper_spawn: the journal is consumed and no teardown
\* thread is spawned.
wrapper_spawn_nothing(t, c) ==
    /\ ~aborted
    /\ journal[c] = "Some"
    /\ Move(t, c, "slot", "tail")
    /\ journal' = [journal EXCEPT ![c] = "None"]
    /\ UNCHANGED << cellVars, reqVars, osVars, handle, tpc, closes, deletes,
                    runs, aborted, now, extVars, ghostVars >>

\* Faulty variant of wrapper_spawn: the wrapper does not wait for the slot to
\* be filled.
wrapper_spawn_unwaited(t, c) ==
    /\ ~aborted
    /\ Move(t, c, "slot", "tail")
    /\ journal' = [journal EXCEPT ![c] = "None"]
    /\ tpc' = [tpc EXCEPT ![c] = "t_start"]
    /\ UNCHANGED << cellVars, reqVars, osVars, handle, closes, deletes,
                    runs, aborted, now, extVars, ghostVars >>

\* The wrapper reads (handle, callback_ptr) from the journal, resets it and
\* spawns the teardown thread.
wrapper_spawn(t, c) ==
    /\ ~aborted
    /\ journal[c] = "Some"
    /\ Move(t, c, "slot", "tail")
    /\ journal' = [journal EXCEPT ![c] = "None"]
    /\ tpc' = [tpc EXCEPT ![c] = "t_start"]
    /\ UNCHANGED << cellVars, reqVars, osVars, handle, closes, deletes,
                    runs, aborted, now, extVars, ghostVars >>

\* The wrapper returns into call(): drop(section).
wrapper_return(t, c) ==
    /\ ~aborted
    /\ Move(t, c, "tail", "done")
    /\ CriticalSection_drop(c)
    /\ UNCHANGED << cell, kind, hint, f, mark_deleted, reqVars, osVars, ownerVars,
                    runs, aborted, now, extVars, ghostVars >>

(***************************************************************************)
(* Teardown.  Drop for Timer and the fire_oneshot teardown thread run      *)
(* close_timer and then drop the boxed cell.  close_timer claims the       *)
(* cell's deletion flag for writing within the acceptable execution time:  *)
(* from the claim on an invocation that enters finds the cell deleted      *)
(* (mark_delete), and the claim is granted once the invocations in flight  *)
(* have left (wait_idle); when they do not leave in time the process       *)
(* aborts.  Only then comes timer_delete.                                  *)
(***************************************************************************)

\* MutWrapper::mark_delete: mark_deleted.store(true).
mark_delete(c) == mark_deleted' = [mark_deleted EXCEPT ![c] = TRUE]

\* MutWrapper::wait_idle succeeds when the in-flight count is observed zero.
wait_idle_ok(c) == idle[c] = 0

\* Faulty variant of close_begin: close_timer runs whether or not the Timer
\* still holds a handle.
close_begin_unguarded(c, waiting, skipped) ==
    /\ handle' = [handle EXCEPT ![c] = "None"]
    /\ mark_delete(c)
    /\ tpc' = [tpc EXCEPT ![c] = waiting]
    /\ firedBeforeClose' = [firedBeforeClose EXCEPT ![c] = (fires[c] > 0)]
    /\ ranBeforeClose' = [ranBeforeClose EXCEPT ![c] = PassedCheck(c)]
    /\ busyAtClose' = [busyAtClose EXCEPT ![c] = InHandler(c)]
    /\ closedAt' = [closedAt EXCEPT ![c] = now]

\* `if let Some(handle) = self.handle.take() { close_timer(..) }`: the handle
\* is taken and close_timer starts; with no handle nothing is done.
close_begin(c, waiting, skipped) ==
    IF handle[c] = "Some"
    THEN /\ handle' = [handle EXCEPT ![c] = "None"]
         /\ mark_delete(c)
         /\ tpc' = [tpc EXCEPT ![c] = waiting]
         /\ firedBeforeClose' = [firedBeforeClose EXCEPT ![c] = (fires[c] > 0)]
         /\ ranBeforeClose' = [ranBeforeClose EXCEPT ![c] = PassedCheck(c)]
         /\ busyAtClose' = [busyAtClose EXCEPT ![c] = InHandler(c)]
         /\ closedAt' = [closedAt EXCEPT ![c] = now]
    ELSE /\ tpc' = [tpc EXCEPT ![c] = skipped]
         /\ UNCHANGED << handle, mark_deleted, firedBeforeClose, ranBeforeClose,
                         busyAtClose, closedAt >>

\* Timer::close called explicitly by the owner.
Timer_close(c) ==
    /\ ~aborted
    /\ tpc[c] = "owned"
    /\ closes[c] < MaxCloses
    /\ closes' = [closes EXCEPT ![c] = @ + 1]
    /\ close_begin(c, "c_wait", "owned")
    /\ UNCHANGED << cell, kind, hint, f, idle, reqVars, osVars, threadVars,
                    journal, deletes, runs, aborted, now, extVars, timed_out >>

\* Drop for Timer: close, then the fields (the boxed cell) are dropped.
Timer_drop(c) ==
    /\ ~aborted
    /\ tpc[c] = "owned"
    /\ closes' = [closes EXCEPT ![c] = @ + 1]
    /\ close_begin(c, "d_wait", "d_free")
    /\ UNCHANGED << cell, kind, hint, f, idle, reqVars, osVars, threadVars,
                    journal, deletes, runs, aborted, now, extVars, timed_out >>

\* The teardown thread of fire_oneshot: Box::from_raw(callback_ptr), then
\* close_timer(handle, &callback).
teardown_begin(c) ==
    /\ ~aborted
    /\ tpc[c] = "t_start"
    /\ mark_delete(c)
    /\ tpc' = [tpc EXCEPT ![c] = "d_wait"]
    /\ UNCHANGED << cell, kind, hint, f, idle, reqVars, osVars, threadVars,
                    handle, journal, closes, deletes, runs, aborted, now, extVars, ghostVars >>

\* close_timer: the wait ends with no invocation in flight.
close_wait(c) ==
    /\ ~aborted
    /\ tpc[c] \in {"c_wait", "d_wait"}
    /\ wait_idle_ok(c)
    /\ tpc' = [tpc EXCEPT ![c] = IF @ = "c_wait" THEN "c_delete" ELSE "d_delete"]
    /\ UNCHANGED << cellVars, reqVars, osVars, threadVars, handle, journal,
                    closes, deletes, runs, aborted, now, extVars, ghostVars >>

\* Faulty variant of on_timeout: the timeout is reported and close_timer goes
\* on to timer_delete.
on_timeout_continue(c) ==
    /\ aborted' = aborted
    /\ tpc' = [tpc EXCEPT ![c] = IF @ = "c_wait" THEN "c_delete" ELSE "d_delete"]

\* `None => { println!("ERROR: ..."); process::abort(); }`
on_timeout(c) ==
    /\ aborted' = TRUE
    /\ tpc' = tpc

\* Faulty variant of close_timeout: the wait has no timeout.
close_timeout_unbounded(c) ==
    /\ FALSE
    /\ UNCHANGED vars

\* close_timer: the acceptable execution time elapsed with an invocation
\* still in flight: process::abort().
close_timeout(c) ==
    /\ ~aborted
    /\ tpc[c] \in {"c_wait", "d_wait"}
    /\ ~wait_idle_ok(c)
    /\ timed_out' = [timed_out EXCEPT ![c] = TRUE]
    /\ on_timeout(c)
    /\ UNCHANGED << cellVars, reqVars, osVars, threadVars, handle, journal,
                    closes, deletes, runs, now, extVars, firedBeforeClose, ranBeforeClose,
                    busyAtClose, closedAt >>

\* Faulty variant of timer_delete: every timer of the queue is disarmed.
timer_delete_all(c) ==
    /\ ~aborted
    /\ tpc[c] \in {"c_delete", "d_delete"}
    /\ armed' = [d \in Cells |-> FALSE]
    /\ created' = [created EXCEPT ![c] = FALSE]
    /\ deletes' = [deletes EXCEPT ![c] = @ + 1]
    /\ tpc' = [tpc EXCEPT ![c] = IF @ = "c_delete" THEN "owned" ELSE "d_free"]
    /\ UNCHANGED << cellVars, reqVars, nextExp, fires, threadVars, handle,
                    journal, closes, runs, aborted, now, extVars, ghostVars >>

\* close_timer: timer_delete(handle) disarms and releases the OS timer.
timer_delete(c) ==
    /\ ~aborted
    /\ tpc[c] \in {"c_delete", "d_delete"}
    /\ armed' = [armed EXCEPT ![c] = FALSE]
    /\ created' = [created EXCEPT ![c] = FALSE]
    /\ deletes' = [deletes EXCEPT ![c] = @ + 1]
    /\ tpc' = [tpc EXCEPT ![c] = IF @ = "c_delete" THEN "owned" ELSE "d_free"]
    /\ UNCHANGED << cellVars, reqVars, nextExp, fires, threadVars, handle,
                    journal, closes, runs, aborted, now, extVars, ghostVars >>

\* The Box<MutWrapper> goes out of scope: the cell is freed, and with it the
\* reference to the core that its main_queue field held.
free_cell(c) ==
    /\ ~aborted
    /\ tpc[c] = "d_free"
    /\ cell' = [cell EXCEPT ![c] = "freed"]
    /\ tpc' = [tpc EXCEPT ![c] = "gone"]
    /\ Arc_drop(handles, Cells \ {c})
    /\ UNCHANGED << kind, hint, f, mark_deleted, idle, reqVars, osVars,
                    threadVars, handle, journal, closes, deletes, runs,
                    aborted, now, sig_panic, waitVars, defaultVars, auxVars, handles,
                    ghostVars >>

(***************************************************************************)
(* Specification: untimed runs over two timers.                            *)
(***************************************************************************)
Next ==
    \/ \E c \in Cells, p \in {0, 1} : \E h \in HintsOf(c) : schedule_timer(c, 1, p, h)
    \/ \E c \in Cells : \E h \in HintsOf(c) : fire_oneshot(c, 1, h)
    \/ creation_thread
    \/ \E c \in Cells : schedule_timer_return(c)
    \/ \E c \in Cells : fire_oneshot_return(c)
    \/ \E c \in Cells : Expire(c)
    \/ worker_enter
    \/ \E c \in Cells : slow_enter(c)
    \/ \E t \in Threads, c \in Cells : call_check(t, c)
    \/ \E t \in Threads, c \in Cells : call_body(t, c)
    \/ \E t \in Threads, c \in Cells : call_return(t, c)
    \/ \E t \in Threads, c \in Cells : wrapper_wait(t, c)
    \/ \E t \in Threads, c \in Cells : wrapper_spawn(t, c)
    \/ \E t \in Threads, c \in Cells : wrapper_return(t, c)
    \/ \E c \in Cells : Timer_close(c)
    \/ \E c \in Cells : Timer_drop(c)
    \/ \E c \in Cells : teardown_begin(c)
    \/ \E c \in Cells : close_wait(c)
    \/ \E c \in Cells : close_timeout(c)
    \/ \E c \in Cells : timer_delete(c)
    \/ \E c \in Cells : free_cell(c)

Spec == Init /\ [][Next]_vars

(***************************************************************************)
(* Timed runs: the clock advances in ticks, the OS delivers an expiry at   *)
(* its time (first at due after timer_settime, then every period), and     *)
(* every step of the library and of the handlers takes a negligible time   *)
(* compared to a tick, so the clock only advances when nothing is pending. *)
(***************************************************************************)

\* The OS timer of cell c expires at its time; a periodic timer is re-armed
\* one period later.
ExpireDue(c) ==
    /\ nextExp[c] = now
    /\ notify(c)
    /\ nextExp' = [nextExp EXCEPT ![c] = now + period[c]]
    /\ now' = now
    /\ UNCHANGED << waitVars, defaultVars, auxVars, coreVars >>

\* No thread of the library has a step to take.
Settled ==
    /\ timer_queue = << >>
    /\ quick_queue = << >>
    /\ worker = IdleWorker
    /\ \A c \in Cells :
          /\ slow[c] = NoThreads
          /\ tpc[c] \in {"unused", "owned", "detached", "failed", "gone"}
          /\ ~(armed[c] /\ nextExp[c] = now)

\* thread::sleep on the owner's side: one tick passes.
Tick ==
    /\ ~aborted
    /\ now < MaxTime
    /\ Settled
    /\ now' = now + 1
    /\ UNCHANGED << cellVars, reqVars, osVars, threadVars, ownerVars, runs,
                    aborted, extVars, ghostVars >>

\* The timer under observation, with any due time and period, is closed or
\* dropped at any time; the other cell carries an interval timer that shares
\* the quick worker and stays alive.
Observed == "a"

NextTimed ==
    \/ \E d \in 1..MaxDue, p \in 0..MaxPeriod :
          now = 0 /\ schedule_timer(Observed, d, p, "Quick")
    \/ \E c \in Cells, i \in 1..MaxPeriod :
          now = 0 /\ schedule_interval(c, i, "Quick")
    \/ creation_thread
    \/ \E c \in Cells : schedule_timer_return(c)
    \/ \E c \in Cells : ExpireDue(c)
    \/ worker_enter
    \/ \E c \in Cells : call_check("quick", c)
    \/ \E c \in Cells : call_body("quick", c)
    \/ \E c \in Cells : call_return("quick", c)
    \/ Timer_close(Observed)
    \/ Timer_drop(Observed)
    \/ close_wait(Observed)
    \/ timer_delete(Observed)
    \/ free_cell(Observed)
    \/ Tick

SpecTimed == Init /\ [][NextTimed]_vars

(***************************************************************************)
(* Fair runs: the OS delivers the expiry of an armed timer, every thread   *)
(* of the library that can take a step eventually takes it, and a handler  *)
(* returns; what the owner of a Timer does is left to the owner.  The      *)
(* invocations return within the acceptable execution time, so the         *)
(* teardown wait does not time out.  Timers share the quick worker with    *)
(* the fire_oneshot calls.                                                 *)
(***************************************************************************)
NextLive ==
    \/ \E c \in Cells, p \in {0, 1} : schedule_timer(c, 1, p, "Quick")
    \/ \E c \in Cells : \E h \in HintsOf(c) : fire_oneshot(c, 1, h)
    \/ creation_thread
    \/ \E c \in Cells : schedule_timer_return(c)
    \/ \E c \in Cells : fire_oneshot_return(c)
    \/ \E c \in Cells : Expire(c)
    \/ worker_enter
    \/ \E c \in Cells : slow_enter(c)
    \/ \E t \in Threads, c \in Cells : call_check(t, c)
    \/ \E t \in Threads, c \in Cells : call_body(t, c)
    \/ \E t \in Threads, c \in Cells : call_return(t, c)
    \/ \E t \in Threads, c \in Cells : wrapper_wait(t, c)
    \/ \E t \in Threads, c \in Cells : wrapper_spawn(t, c)
    \/ \E t \in Threads, c \in Cells : wrapper_return(t, c)
    \/ \E c \in Cells : Timer_drop(c)
    \/ \E c \in Cells : teardown_begin(c)
    \/ \E c \in Cells : close_wait(c)
    \/ \E c \in Cells : timer_delete(c)
    \/ \E c \in Cells : free_cell(c)

Fairness ==
    /\ WF_vars(creation_thread)
    /\ WF_vars(worker_enter)
    /\ \A c \in Cells :
          /\ WF_vars(fire_oneshot_return(c))
          /\ WF_vars(Expire(c))
          /\ WF_vars(slow_enter(c))
          /\ WF_vars(teardown_begin(c))
          /\ WF_vars(close_wait(c))
          /\ WF_vars(timer_delete(c))
          /\ WF_vars(free_cell(c))
          /\ \A t \in Threads :
                /\ WF_vars(call_check(t, c))
                /\ WF_vars(call_body(t, c))
                /\ WF_vars(call_return(t, c))
                /\ WF_vars(wrapper_wait(t, c))
                /\ WF_vars(wrapper_spawn(t, c))
                /\ WF_vars(wrapper_return(t, c))

SpecLive == Init /\ [][NextLive]_vars /\ Fairness


(***************************************************************************)
(* TimerQueue::default(): the process-wide queue behind a sync::Once.      *)
(***************************************************************************)

\* Everything the timers of a queue use; default() touches none of it.
timerVars == << cellVars, reqVars, osVars, threadVars, ownerVars, ghostVars,
                runs, aborted, now, sig_panic, waitVars, coreVars, hint_time,
                timer_receiver, event, waiter, creator >>

\* A thread calls TimerQueue::default().
default(th) ==
    /\ dpc[th] = "idle"
    /\ dpc' = [dpc EXCEPT ![th] = "call_once"]
    /\ UNCHANGED << once, DEFAULT_QUEUE, queues, got, timerVars >>

\* Mutant: the first-call test reads DEFAULT_QUEUE without the Once.
call_once_unsynchronised(th) ==
    /\ dpc[th] = "call_once"
    /\ dpc' = [dpc EXCEPT ![th] = IF DEFAULT_QUEUE = 0 THEN "init" ELSE "ret"]
    /\ UNCHANGED << once, DEFAULT_QUEUE, queues, got, timerVars >>

\* DEFAULT_QUEUE_ONCE.call_once: the first caller runs the closure, a caller
\* arriving while the closure runs blocks until it has completed, and a
\* caller arriving afterwards passes straight through.
call_once(th) ==
    /\ dpc[th] = "call_once"
    /\ once # "Running"
    /\ IF once = "Incomplete"
       THEN /\ once' = "Running"
            /\ dpc' = [dpc EXCEPT ![th] = "init"]
       ELSE /\ once' = once
            /\ dpc' = [dpc EXCEPT ![th] = "ret"]
    /\ UNCHANGED << DEFAULT_QUEUE, queues, got, timerVars >>

\* The closure: DEFAULT_QUEUE = Some(Self::new()).
call_once_closure(th) ==
    /\ dpc[th] = "init"
    /\ queues' = queues + 1
    /\ DEFAULT_QUEUE' = queues + 1
    /\ once' = "Complete"
    /\ dpc' = [dpc EXCEPT ![th] = "ret"]
    /\ UNCHANGED << got, timerVars >>

\* DEFAULT_QUEUE.as_ref().unwrap(): the caller receives the static's queue.
default_return(th) ==
    /\ dpc[th] = "ret"
    /\ DEFAULT_QUEUE # 0
    /\ got' = [got EXCEPT ![th] = DEFAULT_QUEUE]
    /\ dpc' = [dpc EXCEPT ![th] = "idle"]
    /\ UNCHANGED << once, DEFAULT_QUEUE, queues, timerVars >>

NextDefault ==
    \E th \in Callers :
        \/ default(th)
        \/ call_once(th)
        \/ call_once_closure(th)
        \/ default_return(th)

SpecDefault == Init /\ [][NextDefault]_vars


(***************************************************************************)
(* Handlers that panic.  A panic unwinds out of call(), dropping the       *)
(* CriticalSection on the way, and ends the thread it happens on: a        *)
(* dedicated thread just ends; the quick worker ends with its receiver, so *)
(* the quick-dispatch channel is closed from then on.                      *)
(***************************************************************************)
DeadWorker == [pc |-> "dead", ctx |-> "-"]

\* Faulty variant of handler_panic: the unwinding leaves the in-flight count
\* as it is.
handler_panic_counted(t, c) ==
    /\ ~aborted
    /\ kind[c] = "timer"
    /\ At(t, c, "handler")
    /\ IF t = "quick"
       THEN /\ worker' = DeadWorker
            /\ quick_queue' = << >>
            /\ slow' = slow
       ELSE /\ slow' = [slow EXCEPT ![c].handler = @ - 1]
            /\ UNCHANGED << worker, quick_queue >>
    /\ UNCHANGED << cellVars, reqVars, osVars, ownerVars, runs, aborted, now,
                    extVars, ghostVars >>

\* The user closure panics inside call().
handler_panic(t, c) ==
    /\ ~aborted
    /\ kind[c] = "timer"
    /\ At(t, c, "handler")
    /\ IF t = "quick"
       THEN /\ worker' = DeadWorker
            /\ quick_queue' = << >>
            /\ slow' = slow
       ELSE /\ slow' = [slow EXCEPT ![c].handler = @ - 1]
            /\ UNCHANGED << worker, quick_queue >>
    /\ CriticalSection_drop(c)
    /\ UNCHANGED << cell, kind, hint, f, mark_deleted, reqVars, osVars, ownerVars,
                    runs, aborted, now, extVars, ghostVars >>

NextPanic ==
    \/ \E c \in Cells, p \in {0, 1} : \E h \in HintsOf(c) : schedule_timer(c, 1, p, h)
    \/ creation_thread
    \/ \E c \in Cells : schedule_timer_return(c)
    \/ \E c \in Cells : Expire(c)
    \/ worker_enter
    \/ \E c \in Cells : slow_enter(c)
    \/ \E t \in Threads, c \in Cells : call_check(t, c)
    \/ \E t \in Threads, c \in Cells : call_body(t, c)
    \/ \E t \in Threads, c \in Cells : call_return(t, c)
    \/ \E t \in Threads, c \in Cells : handler_panic(t, c)
    \/ \E c \in Cells : Timer_drop(c)
    \/ \E c \in Cells : close_wait(c)
    \/ \E c \in Cells : close_timeout(c)
    \/ \E c \in Cells : timer_delete(c)
    \/ \E c \in Cells : free_cell(c)

SpecPanic == Init /\ [][NextPanic]_vars


(***************************************************************************)
(* Termination of close and drop.  The thread that runs close_timer keeps  *)
(* running: its wait on the in-flight counter ends either with the count   *)
(* observed zero or with the acceptable execution time elapsed, and the    *)
(* calls after the wait return.  Nothing is assumed of the handlers, the   *)
(* dispatch threads or the OS timers: a handler may run for ever.          *)
(***************************************************************************)

\* The timer Observed is closed or dropped; the other timer keeps the
\* dispatch threads busy.
NextClose ==
    \/ \E c \in Cells, p \in {0, 1} : \E h \in HintsOf(c) : schedule_timer(c, 1, p, h)
    \/ creation_thread
    \/ \E c \in Cells : schedule_timer_return(c)
    \/ \E c \in Cells : Expire(c)
    \/ worker_enter
    \/ \E c \in Cells : slow_enter(c)
    \/ \E t \in Threads, c \in Cells : call_check(t, c)
    \/ \E t \in Threads, c \in Cells : call_body(t, c)
    \/ \E t \in Threads, c \in Cells : call_return(t, c)
    \/ Timer_close(Observed)
    \/ Timer_drop(Observed)
    \/ close_wait(Observed)
    \/ close_timeout(Observed)
    \/ timer_delete(Observed)
    \/ free_cell(Observed)

FairClose ==
    /\ WF_vars(close_wait(Observed) \/ close_timeout(Observed))
    /\ WF_vars(timer_delete(Observed))
    /\ WF_vars(free_cell(Observed))

SpecClose == Init /\ [][NextClose]_vars /\ FairClose


(***************************************************************************)
(* The same runs with the quick worker scheduled fairly and Quick handlers *)
(* that return: what is forwarded to the quick worker is eventually run.   *)
(***************************************************************************)
FairDispatch ==
    /\ WF_vars(worker_enter)
    /\ \A c \in Cells :
          /\ WF_vars(call_check("quick", c))
          /\ WF_vars(call_body("quick", c))
          /\ WF_vars(call_return("quick", c))

SpecIsolated == Init /\ [][NextClose]_vars /\ FairClose /\ FairDispatch


(***************************************************************************)
(* MutWrapper::wait_idle, called by the owner of a live timer while the    *)
(* dispatch threads run its handler.                                       *)
(***************************************************************************)

\* impl From<WaitObjectError> for TimerError.
From_WaitObjectError(e) ==
    CASE e = "OsError" -> "OsError"
      [] e = "SynchronizationBroken" -> "SynchronizationBroken"
      [] e = "Timeout" -> "SynchronizationBroken"

\* self.idle.wait(Some(acceptable_execution_time), |v| *v == 0) returns: the
\* count was seen at zero, or the time is up with the count still not zero.
idle_wait(c) == IF idle[c] = 0 THEN "Ok" ELSE "Timeout"

\* The owner calls wait_idle on the cell of its timer.
wait_idle(c) ==
    /\ ~aborted
    /\ tpc[c] = "owned"
    /\ handle[c] = "Some"
    /\ tpc' = [tpc EXCEPT ![c] = "w_wait"]
    /\ wait_result' = [wait_result EXCEPT ![c] = "none"]
    /\ wait_tries' = [wait_tries EXCEPT ![c] = 0]
    /\ UNCHANGED << cellVars, reqVars, osVars, threadVars, handle, journal,
                    closes, deletes, runs, aborted, now, sig_panic, defaultVars, auxVars,
                    coreVars,
                    ghostVars >>

\* Faulty variant of wait_idle_return: the timeout is swallowed.
wait_idle_return_ok(c) ==
    /\ ~aborted
    /\ tpc[c] = "w_wait"
    /\ wait_tries' = [wait_tries EXCEPT ![c] = @ + 1]
    /\ wait_result' = [wait_result EXCEPT ![c] = "Ok"]
    /\ tpc' = [tpc EXCEPT ![c] = "owned"]
    /\ UNCHANGED << cellVars, reqVars, osVars, threadVars, handle, journal,
                    closes, deletes, runs, aborted, now, sig_panic, defaultVars, auxVars,
                    coreVars,
                    ghostVars >>

\* wait_idle returns: `Ok(_) => Ok(())`, `Err(e) => Err(e.into())`.
wait_idle_return(c) ==
    /\ ~aborted
    /\ tpc[c] = "w_wait"
    /\ wait_tries' = [wait_tries EXCEPT ![c] = @ + 1]
    /\ wait_result' = [wait_result EXCEPT ![c] =
                          IF idle_wait(c) = "Ok" THEN "Ok"
                          ELSE From_WaitObjectError(idle_wait(c))]
    /\ tpc' = [tpc EXCEPT ![c] = "owned"]
    /\ UNCHANGED << cellVars, reqVars, osVars, threadVars, handle, journal,
                    closes, deletes, runs, aborted, now, sig_panic, defaultVars, auxVars,
                    coreVars,
                    ghostVars >>

NextWait ==
    \/ \E c \in Cells, p \in {0, 1} : \E h \in HintsOf(c) : schedule_timer(c, 1, p, h)
    \/ creation_thread
    \/ \E c \in Cells : schedule_timer_return(c)
    \/ \E c \in Cells : Expire(c)
    \/ worker_enter
    \/ \E c \in Cells : slow_enter(c)
    \/ \E t \in Threads, c \in Cells : call_check(t, c)
    \/ \E t \in Threads, c \in Cells : call_body(t, c)
    \/ \E t \in Threads, c \in Cells : call_return(t, c)
    \/ \E c \in Cells : wait_idle(c)
    \/ \E c \in Cells : wait_idle_return(c)

SpecWait == Init /\ [][NextWait]_vars


(***************************************************************************)
(* The cell on its own: MutWrapper::call entered by several dispatch       *)
(* threads at once, on a cell built by new (Mut body) or new_once (Once    *)
(* body), while the owner may mark it deleted.                             *)
(***************************************************************************)

\* MutWrapper::new / MutWrapper::new_once: a boxed cell around the handler.
MutWrapper_new_once(c, h, body) ==
    /\ ~aborted
    /\ tpc[c] = "unused"
    /\ cell' = [cell EXCEPT ![c] = "live"]
    /\ kind' = [kind EXCEPT ![c] = IF body = "Once" THEN "once" ELSE "timer"]
    /\ hint' = [hint EXCEPT ![c] = h]
    /\ f' = [f EXCEPT ![c] = body]
    /\ mark_deleted' = [mark_deleted EXCEPT ![c] = FALSE]
    /\ idle' = [idle EXCEPT ![c] = 0]
    /\ tpc' = [tpc EXCEPT ![c] = "owned"]
    /\ UNCHANGED << reqVars, osVars, threadVars, handle, journal, closes, deletes,
                    runs, aborted, now, extVars, ghostVars >>

\* A dispatch thread is handed the address of the cell and is about to run
\* unsafe_call on it.
entrant(c) ==
    /\ ~aborted
    /\ cell[c] = "live"
    /\ fires[c] < MaxFires
    /\ fires' = [fires EXCEPT ![c] = @ + 1]
    /\ slow' = [slow EXCEPT ![c].start = @ + 1]
    /\ UNCHANGED << cellVars, reqVars, created, armed, nextExp, quick_queue, worker,
                    ownerVars, runs, aborted, now, extVars, ghostVars >>

\* The owner of the cell marks it deleted.
cell_mark_delete(c) ==
    /\ ~aborted
    /\ cell[c] = "live"
    /\ ~mark_deleted[c]
    /\ mark_delete(c)
    /\ UNCHANGED << cell, kind, hint, f, idle, reqVars, osVars, threadVars,
                    ownerVars, runs, aborted, now, extVars, ghostVars >>

NextCell ==
    \/ \E c \in Cells, body \in {"Mut", "Once"} : MutWrapper_new_once(c, "Slow", body)
    \/ \E c \in Cells : entrant(c)
    \/ \E c \in Cells : slow_enter(c)
    \/ \E c \in Cells : call_check("slow", c)
    \/ \E c \in Cells : call_body("slow", c)
    \/ \E c \in Cells : call_take("slow", c)
    \/ \E c \in Cells : call_return("slow", c)
    \/ \E c \in Cells : cell_mark_delete(c)

SpecCell == Init /\ [][NextCell]_vars


(***************************************************************************)
(* The Windows timer-queue backend of src/src/windows/mod.rs: the OS       *)
(* thread pool runs timer_callback, call() holds the read side of the      *)
(* cell's mark_deleted lock for its whole length, and Drop for Timer takes *)
(* the write side and keeps it to its end.  The results of the native      *)
(* calls are inputs.  `idle` is the `executing` event here: 0 when set,    *)
(* 1 when reset.                                                           *)
(***************************************************************************)
WinDropping == {"w_disarm", "w_wait", "w_delete"}

\* TimerQueue::schedule_timer: CreateTimerQueueTimer succeeds or fails.
win_schedule_timer(c, p, ok) ==
    /\ ~aborted
    /\ tpc[c] = "unused"
    /\ kind' = [kind EXCEPT ![c] = "timer"]
    /\ hint' = [hint EXCEPT ![c] = "Slow"]
    /\ period' = [period EXCEPT ![c] = p]
    /\ mark_deleted' = [mark_deleted EXCEPT ![c] = FALSE]
    /\ idle' = [idle EXCEPT ![c] = 0]
    /\ IF ok
       THEN /\ cell' = [cell EXCEPT ![c] = "live"]
            /\ f' = [f EXCEPT ![c] = "Mut"]
            /\ created' = [created EXCEPT ![c] = TRUE]
            /\ armed' = [armed EXCEPT ![c] = TRUE]
            /\ handle' = [handle EXCEPT ![c] = "Some"]
            /\ reply' = [reply EXCEPT ![c] = "Ok"]
            /\ tpc' = [tpc EXCEPT ![c] = "owned"]
       ELSE /\ cell' = [cell EXCEPT ![c] = "freed"]
            /\ reply' = [reply EXCEPT ![c] = "Err"]
            /\ tpc' = [tpc EXCEPT ![c] = "failed"]
            /\ UNCHANGED << f, created, armed, handle >>
    /\ UNCHANGED << due, timer_queue, nextExp, fires, threadVars, journal, closes,
                    deletes, runs, aborted, now, extVars, ghostVars >>

\* MutWrapper::call on a pool thread: mark_deleted.read() is granted while
\* no Drop holds the write side; a deleted cell returns at once, otherwise
\* CriticalSection::new resets `executing` and the handler starts.
win_call(c) ==
    /\ ~aborted
    /\ tpc[c] \notin WinDropping
    /\ slow[c].start > 0
    /\ \E d \in is_deleted(c) :
         IF d
         THEN /\ slow' = [slow EXCEPT ![c].start = @ - 1]
              /\ UNCHANGED << idle, runs >>
         ELSE /\ slow' = [slow EXCEPT ![c].start = @ - 1, ![c].handler = @ + 1]
              /\ idle' = [idle EXCEPT ![c] = 1]
              /\ runs' = [runs EXCEPT ![c] = @ + 1]
    /\ UNCHANGED << cell, kind, hint, f, mark_deleted, reqVars, osVars, quick_queue,
                    worker, ownerVars, aborted, now, extVars, ghostVars >>

\* The handler returns: drop(cs) sets `executing`, the read guard is released.
win_call_return(c) ==
    /\ ~aborted
    /\ slow[c].handler > 0
    /\ slow' = [slow EXCEPT ![c].handler = @ - 1]
    /\ idle' = [idle EXCEPT ![c] = 0]
    /\ UNCHANGED << cell, kind, hint, f, mark_deleted, reqVars, osVars, quick_queue,
                    worker, ownerVars, runs, aborted, now, extVars, ghostVars >>

\* Drop for Timer: the handle is valid, mark_deleted.write() is granted once
\* no call holds the read side, and the flag is set.
win_drop(c) ==
    /\ ~aborted
    /\ tpc[c] = "owned" /\ handle[c] = "Some"
    /\ slow[c].handler = 0
    /\ mark_delete(c)
    /\ closes' = [closes EXCEPT ![c] = @ + 1]
    /\ tpc' = [tpc EXCEPT ![c] = "w_disarm"]
    /\ UNCHANGED << cell, kind, hint, f, idle, reqVars, osVars, threadVars, handle,
                    journal, deletes, runs, aborted, now, extVars, ghostVars >>

\* Variant of win_change_period in which a failure of the disarm is only
\* reported.
win_change_period_logged(c, ok) ==
    /\ ~aborted
    /\ tpc[c] = "w_disarm"
    /\ armed' = [armed EXCEPT ![c] = IF ok THEN FALSE ELSE @]
    /\ tpc' = [tpc EXCEPT ![c] = "w_wait"]
    /\ UNCHANGED << cellVars, reqVars, created, nextExp, fires, threadVars, handle,
                    journal, closes, deletes, runs, aborted, now, extVars, ghostVars >>

\* Drop for Timer: `self.change_period(Duration::default(),
\* Duration::default()).unwrap()`: the timer is disarmed, or the call fails
\* and the unwrap panics; the panic unwinds out of drop, which releases the
\* lock and drops the boxed cell of a timer that was neither disarmed nor
\* deleted.
win_change_period(c, ok) ==
    /\ ~aborted
    /\ tpc[c] = "w_disarm"
    /\ IF ok
       THEN /\ armed' = [armed EXCEPT ![c] = FALSE]
            /\ tpc' = [tpc EXCEPT ![c] = "w_wait"]
            /\ cell' = cell
       ELSE /\ armed' = armed
            /\ tpc' = [tpc EXCEPT ![c] = "panicked"]
            /\ cell' = [cell EXCEPT ![c] = "freed"]
    /\ UNCHANGED << kind, hint, f, mark_deleted, idle, reqVars, created, nextExp,
                    fires, threadVars, handle, journal, closes, deletes, runs,
                    aborted, now, extVars, ghostVars >>

\* Drop for Timer: executing.wait_one(EXPECTED_EXECUTION_TIME): the event is
\* set, or the time runs out and the process aborts.
win_wait_one(c) ==
    /\ ~aborted
    /\ tpc[c] = "w_wait"
    /\ IF idle[c] = 0
       THEN /\ tpc' = [tpc EXCEPT ![c] = "w_delete"]
            /\ aborted' = aborted
       ELSE /\ tpc' = tpc
            /\ aborted' = TRUE
    /\ UNCHANGED << cellVars, reqVars, osVars, threadVars, handle, journal, closes,
                    deletes, runs, now, extVars, ghostVars >>

\* Drop for Timer: DeleteTimerQueueTimer; a failure is printed; the handle is
\* cleared either way, drop returns and the boxed cell is dropped.
win_delete_timer(c, ok) ==
    /\ ~aborted
    /\ tpc[c] = "w_delete"
    /\ created' = [created EXCEPT ![c] = IF ok THEN FALSE ELSE @]
    /\ deletes' = [deletes EXCEPT ![c] = @ + 1]
    /\ handle' = [handle EXCEPT ![c] = "None"]
    /\ cell' = [cell EXCEPT ![c] = "freed"]
    /\ tpc' = [tpc EXCEPT ![c] = "gone"]
    /\ UNCHANGED << kind, hint, f, mark_deleted, idle, reqVars, armed, nextExp,
                    fires, threadVars, journal, closes, runs, aborted, now, extVars,
                    ghostVars >>

NextWindows ==
    \/ \E c \in Cells, p \in {0, 1}, ok \in BOOLEAN : win_schedule_timer(c, p, ok)
    \/ \E c \in Cells : Expire(c)
    \/ \E c \in Cells : win_call(c)
    \/ \E c \in Cells : win_call_return(c)
    \/ \E c \in Cells : win_drop(c)
    \/ \E c \in Cells, ok \in BOOLEAN : win_change_period(c, ok)
    \/ \E c \in Cells : win_wait_one(c)
    \/ \E c \in Cells, ok \in BOOLEAN : win_delete_timer(c, ok)

SpecWindows == Init /\ [][NextWindows]_vars


(***************************************************************************)
(* Teardown with a failing native delete: the runs of SpecClose in which   *)
(* timer_delete may return an error.                                       *)
(***************************************************************************)

\* Faulty variant of timer_delete_fails: the error is raised, not reported.
timer_delete_fails_raised(c) ==
    /\ ~aborted
    /\ tpc[c] \in {"c_delete", "d_delete"}
    /\ deletes' = [deletes EXCEPT ![c] = @ + 1]
    /\ aborted' = TRUE
    /\ UNCHANGED << cellVars, reqVars, osVars, threadVars, handle, journal, tpc,
                    closes, runs, now, extVars, ghostVars >>

\* close_timer: `if timer_delete(handle) < 0 { ...; println!("WARNING: ...") }`:
\* the call fails, the OS timer is as it was, the warning is printed and
\* close_timer returns.
timer_delete_fails(c) ==
    /\ ~aborted
    /\ tpc[c] \in {"c_delete", "d_delete"}
    /\ deletes' = [deletes EXCEPT ![c] = @ + 1]
    /\ tpc' = [tpc EXCEPT ![c] = IF @ = "c_delete" THEN "owned" ELSE "d_free"]
    /\ UNCHANGED << cellVars, reqVars, osVars, threadVars, handle, journal,
                    closes, runs, aborted, now, extVars, ghostVars >>

NextNativeFail ==
    \/ NextClose
    \/ timer_delete_fails(Observed)

FairNativeFail ==
    /\ WF_vars(close_wait(Observed) \/ close_timeout(Observed))
    /\ WF_vars(timer_delete(Observed) \/ timer_delete_fails(Observed))
    /\ WF_vars(free_cell(Observed))

SpecNativeFail == Init /\ [][NextNativeFail]_vars /\ FairNativeFail


(***************************************************************************)
(* The life of the queue core.  TimerQueue is an Arc<TimerQueueCore>, every *)
(* cell holds another reference (main_queue), and the core goes when the   *)
(* last reference is dropped.  The program holds one handle of the queue   *)
(* (TimerQueue::new) and may drop it at any time, also from a handler.     *)
(***************************************************************************)

\* Faulty variant of TimerQueue_drop: the handle owns the core.
TimerQueue_drop_owning ==
    /\ ~aborted
    /\ handles > 0
    /\ handles' = handles - 1
    /\ core' = "released"
    /\ UNCHANGED << cellVars, reqVars, osVars, threadVars, ownerVars, runs, aborted,
                    now, sig_panic, waitVars, defaultVars, auxVars, ghostVars >>

\* The program drops its TimerQueue handle.
TimerQueue_drop ==
    /\ ~aborted
    /\ handles > 0
    /\ handles' = handles - 1
    /\ Arc_drop(handles - 1, Cells)
    /\ UNCHANGED << cellVars, reqVars, osVars, threadVars, ownerVars, runs, aborted,
                    now, sig_panic, waitVars, defaultVars, auxVars, ghostVars >>

\* The handle was moved into the handler of cell c, which drops it while it
\* runs.
TimerQueue_drop_in_handler(c) ==
    /\ InHandler(c)
    /\ TimerQueue_drop

NextCore ==
    \/ \E c \in Cells : handles > 0 /\ schedule_timer(c, 1, 0, "Quick")
    \/ \E c \in Cells : handles > 0 /\ fire_oneshot(c, 1, "Quick")
    \/ creation_thread
    \/ \E c \in Cells : schedule_timer_return(c)
    \/ \E c \in Cells : fire_oneshot_return(c)
    \/ \E c \in Cells : Expire(c)
    \/ worker_enter
    \/ \E c \in Cells : call_check("quick", c)
    \/ \E c \in Cells : call_body("quick", c)
    \/ \E c \in Cells : call_return("quick", c)
    \/ \E c \in Cells : wrapper_wait("quick", c)
    \/ \E c \in Cells : wrapper_spawn("quick", c)
    \/ \E c \in Cells : wrapper_return("quick", c)
    \/ \E c \in Cells : Timer_drop(c)
    \/ \E c \in Cells : teardown_begin(c)
    \/ \E c \in Cells : close_wait(c)
    \/ \E c \in Cells : close_timeout(c)
    \/ \E c \in Cells : timer_delete(c)
    \/ \E c \in Cells : free_cell(c)
    \/ TimerQueue_drop
    \/ \E c \in Cells : TimerQueue_drop_in_handler(c)

SpecCore == Init /\ [][NextCore]_vars


(***************************************************************************)
(* The bound of the teardown wait.  A tick is half a second.  A handler    *)
(* may run for any length of time, the clock advances while it runs, and   *)
(* the wait of close_timer gives up when the acceptable execution time of  *)
(* the cell has passed since the wait began.  The program schedules one    *)
(* single-shot timer with no hint, with QuickFunction or with              *)
(* SlowFunction(d), for every duration d up to MaxHintTime.                *)
(***************************************************************************)

\* timer.rs: DEFAULT_ACCEPTABLE_EXECUTION_TIME = Duration::from_secs(1).
DEFAULT_ACCEPTABLE_EXECUTION_TIME == 2

\* Bound on the duration (ticks) carried by a SlowFunction hint.
MaxHintTime == 3

\* The hints a schedule call may be given: None, Some(QuickFunction),
\* Some(SlowFunction(d)).
CallbackHint == {"None", "Quick", "Slow"}

InitBound ==
    /\ Started
    /\ \E d \in 1..MaxHintTime :
          hint_time = [c \in Cells |-> IF c = "a" THEN d ELSE 1]

\* Faulty variant of get_acceptable_execution_time: the duration carried by
\* the hint is ignored.
get_acceptable_execution_time_default(c) == DEFAULT_ACCEPTABLE_EXECUTION_TIME

\* close_timer: `match callback.hints { Some(CallbackHint::SlowFunction(d))
\* => d, _ => DEFAULT_ACCEPTABLE_EXECUTION_TIME }`.
get_acceptable_execution_time(c) ==
    IF hint[c] = "Slow" THEN hint_time[c] ELSE DEFAULT_ACCEPTABLE_EXECUTION_TIME

\* The time the wait of close_timer on cell c has lasted.
Waited(c) == now - closedAt[c]

\* close_timer: the wait was given the acceptable execution time and it has
\* passed with an invocation still in flight.
close_timeout_due(c) ==
    /\ Waited(c) >= get_acceptable_execution_time(c)
    /\ close_timeout(c)

\* Half a second passes: no expiry is due at this instant, and no wait of a
\* close_timer has used up its time.
Sleep ==
    /\ ~aborted
    /\ now < MaxTime
    /\ \A c \in Cells :
          /\ ~(armed[c] /\ nextExp[c] = now)
          /\ tpc[c] \in {"c_wait", "d_wait"}
             => Waited(c) < get_acceptable_execution_time(c)
    /\ now' = now + 1
    /\ UNCHANGED << cellVars, reqVars, osVars, threadVars, ownerVars, runs,
                    aborted, extVars, ghostVars >>

NextBound ==
    \/ \E h \in CallbackHint : now = 0 /\ schedule_timer(Observed, 1, 0, h)
    \/ creation_thread
    \/ schedule_timer_return(Observed)
    \/ ExpireDue(Observed)
    \/ worker_enter
    \/ slow_enter(Observed)
    \/ \E t \in Threads : call_check(t, Observed)
    \/ \E t \in Threads : call_body(t, Observed)
    \/ \E t \in Threads : call_return(t, Observed)
    \/ Timer_drop(Observed)
    \/ close_wait(Observed)
    \/ close_timeout_due(Observed)
    \/ timer_delete(Observed)
    \/ free_cell(Observed)
    \/ Sleep

SpecBound == InitBound /\ [][NextBound]_vars


(***************************************************************************)
(* The creation path of src/src/unix/mod.rs.  The queue has one channel of *)
(* creation results (timer_receiver): the creation thread sends the        *)
(* address of the request's cell with each result, and schedule_timer      *)
(* takes the next message of the channel and asserts that the address is   *)
(* its own.  Several threads schedule timers on the queue; a message goes  *)
(* to whichever of the waiting calls receives first.  `reply` records the  *)
(* result that the creation thread computed for each request.              *)
(***************************************************************************)

\* The creation thread of unix/mod.rs: one request at a time, the result is
\* sent with the address of the cell on the queue's result channel.
creation_thread_shared ==
    /\ ~aborted
    /\ timer_queue # << >>
    /\ LET c == Head(timer_queue) IN
         \E failing \in Failures :
            LET res == IF failing = "none" THEN "Ok" ELSE "Err" IN
            /\ schedule_signal_callback(c, failing)
            /\ reply' = [reply EXCEPT ![c] = res]
            /\ timer_receiver' = Append(timer_receiver, [id |-> c, res |-> res])
    /\ timer_queue' = Tail(timer_queue)
    /\ UNCHANGED << cellVars, due, period, fires, threadVars, ownerVars, runs,
                    aborted, now, sig_panic, waitVars, defaultVars, coreVars,
                    hint_time, event, waiter, creator, ghostVars >>

\* schedule_timer of unix/mod.rs after the send: `let (id, timer_unsafe) =
\* self.timer_receiver.recv().unwrap(); assert_eq!(id, callback_ref);` and
\* then the Timer or the error.  A message of another request fails the
\* assertion: the call panics and the unwinding drops its boxed cell.
schedule_timer_recv(c) ==
    /\ ~aborted
    /\ tpc[c] = "requested" /\ kind[c] = "timer"
    /\ timer_receiver # << >>
    /\ LET m == Head(timer_receiver) IN
         IF m.id # c
         THEN /\ tpc' = [tpc EXCEPT ![c] = "panicked"]
              /\ cell' = [cell EXCEPT ![c] = "freed"]
              /\ handle' = handle
         ELSE IF m.res = "Ok"
         THEN /\ tpc' = [tpc EXCEPT ![c] = "owned"]
              /\ handle' = [handle EXCEPT ![c] = "Some"]
              /\ cell' = cell
         ELSE /\ tpc' = [tpc EXCEPT ![c] = "failed"]
              /\ cell' = [cell EXCEPT ![c] = "freed"]
              /\ handle' = handle
    /\ timer_receiver' = Tail(timer_receiver)
    /\ UNCHANGED << kind, hint, f, mark_deleted, idle, reqVars, osVars, threadVars,
                    journal, closes, deletes, runs, aborted, now, sig_panic,
                    waitVars, defaultVars, coreVars, hint_time, event, waiter,
                    creator, ghostVars >>

NextShared ==
    \/ \E c \in Cells, p \in {0, 1} : schedule_timer(c, 1, p, "Slow")
    \/ creation_thread_shared
    \/ \E c \in Cells : schedule_timer_recv(c)
    \/ \E c \in Cells : Expire(c)
    \/ \E c \in Cells : slow_enter(c)
    \/ \E c \in Cells : call_check("slow", c)
    \/ \E c \in Cells : call_body("slow", c)
    \/ \E c \in Cells : call_return("slow", c)

SpecShared == Init /\ [][NextShared]_vars


(***************************************************************************)
(* ManualResetEvent of src/src/unix/waitable_objects.rs: a Mutex<bool>     *)
(* with a Condvar.  One thread waits with wait_one(timeout) (Drop for      *)
(* Timer in unix/mod.rs), other threads set and reset the event, and the   *)
(* clock advances.  The steps a thread takes while it holds the mutex take *)
(* no time; a thread blocked in Condvar::wait runs again when the condvar  *)
(* is notified, or on a spurious wakeup, which may or may not happen.      *)
(***************************************************************************)

\* Bound on the timeout (ticks) given to wait_one.
MaxTimeout == 2

\* Everything but the event, its waiter and the clock.
queueVars == << cellVars, reqVars, osVars, threadVars, ownerVars, ghostVars,
                runs, aborted, sig_panic, waitVars, defaultVars, coreVars,
                hint_time, timer_receiver, creator >>

\* The thread in wait holds the mutex.
Locked == waiter.pc = "loop"

\* waiter(timeout): `(Instant::now() - start) < timeout`.
ManualResetEvent_waiter == (now - waiter.start) < waiter.timeout

\* wait_one(timeout): waiter(timeout) takes the start time, wait() locks the
\* mutex.
wait_one(t) ==
    /\ waiter.pc = "idle"
    /\ waiter' = [pc |-> "loop", start |-> now, timeout |-> t, ret |-> FALSE]
    /\ UNCHANGED << event, now, queueVars >>

\* wait(): `while !*state && waiter() { state = cond.wait(state)?; }
\* Ok(*state)`: one evaluation of the loop condition; the thread blocks on
\* the condvar, which releases the mutex, or returns the state.
wait_loop ==
    /\ waiter.pc = "loop"
    /\ IF ~event /\ ManualResetEvent_waiter
       THEN waiter' = [waiter EXCEPT !.pc = "cond_wait"]
       ELSE waiter' = [waiter EXCEPT !.pc = "returned", !.ret = event]
    /\ UNCHANGED << event, now, queueVars >>

\* Condvar::wait returns without a notification (spurious wakeup) and takes
\* the mutex again.
cond_wait_spurious ==
    /\ waiter.pc = "cond_wait"
    /\ waiter' = [waiter EXCEPT !.pc = "loop"]
    /\ UNCHANGED << event, now, queueVars >>

\* set_state(new_state), called by set() and reset(): lock, store,
\* notify_all; the notified thread takes the mutex again.
set_state(new_state) ==
    /\ ~Locked
    /\ event' = new_state
    /\ waiter' = IF waiter.pc = "cond_wait" THEN [waiter EXCEPT !.pc = "loop"]
                 ELSE waiter
    /\ UNCHANGED << now, queueVars >>

\* The caller of wait_one goes on with the result.
wait_one_return ==
    /\ waiter.pc = "returned"
    /\ waiter' = NoWaiter
    /\ UNCHANGED << event, now, queueVars >>

\* A tick passes while no thread is inside the mutex.
EventTick ==
    /\ now < MaxTime
    /\ ~Locked
    /\ now' = now + 1
    /\ UNCHANGED << event, waiter, queueVars >>

NextEvent ==
    \/ \E t \in 1..MaxTimeout : wait_one(t)
    \/ wait_loop
    \/ cond_wait_spurious
    \/ \E b \in BOOLEAN : set_state(b)
    \/ wait_one_return
    \/ EventTick

SpecEvent == Init /\ [][NextEvent]_vars


(***************************************************************************)
(* The two threads of a queue made by TimerQueue::new.  Each runs a        *)
(* `for .. in receiver` loop over a channel whose only Sender is a field   *)
(* of the core (timer_queue, quick_dispatcher): the loop ends when the     *)
(* core is released and the messages still in the channel are consumed.    *)
(* Every thread of the library that can take a step eventually takes it    *)
(* and handlers return; what the program does with its timers and its      *)
(* queue handle is left to the program.                                    *)
(***************************************************************************)

\* Faulty variant of worker_exit: the worker keeps a Sender of its own
\* channel, which never closes.
worker_exit_sender_kept ==
    /\ FALSE
    /\ UNCHANGED vars

\* `for ctx in quick_queue { .. }` ends: the channel is empty and its Sender
\* went with the core.
worker_exit ==
    /\ ~aborted
    /\ worker = IdleWorker
    /\ quick_queue = << >>
    /\ core = "released"
    /\ worker' = [pc |-> "exited", ctx |-> "-"]
    /\ UNCHANGED << cellVars, reqVars, osVars, quick_queue, slow, ownerVars,
                    ghostVars, runs, aborted, now, extVars >>

\* `for req in receiver { .. }` ends in the timer-creation thread.
creation_thread_exit ==
    /\ ~aborted
    /\ creator = "running"
    /\ timer_queue = << >>
    /\ core = "released"
    /\ creator' = "exited"
    /\ UNCHANGED << cellVars, reqVars, osVars, threadVars, ownerVars, ghostVars,
                    runs, aborted, now, sig_panic, waitVars, defaultVars,
                    coreVars, hint_time, timer_receiver, event, waiter >>

NextExit ==
    \/ NextCore
    \/ worker_exit
    \/ creation_thread_exit

FairExit ==
    /\ WF_vars(creation_thread)
    /\ WF_vars(worker_enter)
    /\ WF_vars(worker_exit)
    /\ WF_vars(creation_thread_exit)
    /\ \A c \in Cells :
          /\ WF_vars(schedule_timer_return(c))
          /\ WF_vars(fire_oneshot_return(c))
          /\ WF_vars(call_check("quick", c))
          /\ WF_vars(call_body("quick", c))
          /\ WF_vars(call_return("quick", c))
          /\ WF_vars(wrapper_wait("quick", c))
          /\ WF_vars(wrapper_spawn("quick", c))
          /\ WF_vars(wrapper_return("quick", c))
          /\ WF_vars(teardown_begin(c))
          /\ WF_vars(close_wait(c) \/ close_timeout(c))
          /\ WF_vars(timer_delete(c))
          /\ WF_vars(free_cell(c))

SpecExit == Init /\ [][NextExit]_vars /\ FairExit

(***************************************************************************)
(* Properties of the teardown protocol.                                    *)
(***************************************************************************)

\* close_timer has returned on the Timer of cell c (after an explicit close,
\* or inside / after its drop).
Closed(c) ==
    /\ kind[c] = "timer"
    /\ handle[c] = "None"
    /\ closes[c] > 0
    /\ tpc[c] \in {"owned", "d_free", "gone"}

\* C1: once close/drop has returned, no execution of the timer's handler is
\* in progress and none starts afterwards.
C1_NoHandlerAfterClose ==
    [][\A c \in Cells :
          Closed(c) => (~InHandler(c) /\ runs'[c] = runs[c])]_vars

\* C2: a cell freed by a Timer's drop or by the fire_oneshot teardown thread
\* was marked deleted before, and no call() on it is in flight when it is
\* freed.
C2_FreedOnlyWhenIdle ==
    [][\A c \in Cells :
          (tpc[c] = "d_free" /\ cell'[c] = "freed")
              => (mark_deleted[c] /\ idle[c] = 0)]_vars

\* C3: a Timer closed or dropped when no expiry notification had been
\* delivered never has its handler invoked.
C3_ClosedBeforeDueNeverRuns ==
    \A c \in Cells :
        (kind[c] = "timer" /\ closes[c] > 0 /\ handle[c] = "None"
            /\ ~firedBeforeClose[c]) => runs[c] = 0

\* close/drop was called on the Timer of cell c and took its handle.
CloseBegun(c) == kind[c] = "timer" /\ closes[c] > 0 /\ handle[c] = "None"

\* No notification of cell c is waiting for, or inside, a dispatch thread.
Quiet(c) ==
    /\ \A i \in 1..Len(quick_queue) : quick_queue[i] # c
    /\ worker.ctx # c
    /\ slow[c] = NoThreads

\* C4: when close/drop is called while the handler is executing, close_timer
\* does not get past its wait while an invocation of the handler is
\* executing, and the handler is not invoked again once the close began.
C4_CloseWaitsAndNoReinvoke ==
    [][\A c \in Cells :
          (CloseBegun(c) /\ busyAtClose[c])
              => /\ runs'[c] = runs[c]
                 /\ (tpc[c] \notin {"c_wait", "d_wait"} => ~InHandler(c))]_vars

\* C5 (as stated): a Timer with period 0 dropped after its notification was
\* delivered and dispatched has run its handler exactly once when all is
\* done.
C5_DispatchedRunsOnce ==
    \A c \in Cells :
        (kind[c] = "timer" /\ period[c] = 0 /\ tpc[c] = "gone"
            /\ firedBeforeClose[c] /\ Quiet(c)) => runs[c] = 1

\* C5 (amended): a Timer with period 0 runs its handler at most once; exactly
\* once, when all is done, if a call() had passed its flag check before
\* close/drop marked the cell, and not at all, as long as the cell is
\* allocated, when the mark came first.
C5_AtMostOnceAndSkippedWhenMarked ==
    \A c \in Cells :
        (kind[c] = "timer" /\ period[c] = 0)
            => /\ runs[c] <= 1
               /\ (CloseBegun(c) /\ ranBeforeClose[c] /\ Quiet(c)) => runs[c] = 1
               /\ (CloseBegun(c) /\ ~ranBeforeClose[c] /\ cell[c] = "live")
                      => runs[c] = 0

\* C5 witness: the notification of a period-0 Timer was dispatched, the drop
\* marked the cell first, and the call was skipped.
C5_Witness ==
    \E c \in Cells :
        /\ kind[c] = "timer" /\ period[c] = 0 /\ fires[c] = 1
        /\ firedBeforeClose[c] /\ ~ranBeforeClose[c]
        /\ tpc[c] = "d_free" /\ Quiet(c) /\ runs[c] = 0

OneshotDone(c) ==
    /\ tpc[c] = "gone" /\ cell[c] = "freed"
    /\ runs[c] = 1 /\ deletes[c] = 1 /\ ~armed[c]

C10_FireOneshotDoesNotBlock ==
    \A c \in Cells :
        /\ (~aborted /\ kind[c] = "oneshot" /\ tpc[c] = "requested"
               /\ reply[c] # "none") => ENABLED fire_oneshot_return(c)
        /\ \A t \in Threads :
              (~aborted /\ At(t, c, "tail")) => ENABLED wrapper_return(t, c)

\* C10 witness: fire_oneshot has returned Ok and the handler has not started.
C10_Witness ==
    \E c \in Cells :
        kind[c] = "oneshot" /\ tpc[c] = "detached" /\ reply[c] = "Ok" /\ runs[c] = 0

\* The calls of call() on cell c that have loaded the flag and found it false.
PassedCount(c) ==
    runs[c] + slow[c].checked + slow[c].taken
        + (IF worker.pc \in {"checked", "taken"} /\ worker.ctx = c THEN 1 ELSE 0)

\* The threads inside call() on cell c.
InCall(c) ==
    slow[c].entered + slow[c].checked + slow[c].taken + slow[c].handler + slow[c].slot
        + slow[c].tail
        + (IF worker.pc # "idle" /\ worker.ctx = c THEN 1 ELSE 0)

\* C20 (as stated): once the deleted flag of an allocated cell is true, no
\* execution of the handler body begins.
C20_NoBodyAfterFlag ==
    [][\A c \in Cells :
          (mark_deleted[c] /\ cell[c] = "live") => runs'[c] = runs[c]]_vars

\* C20 (amended): once the deleted flag of an allocated cell is true, no
\* call() that loads the flag passes the check; a call() that loaded the flag
\* before may still begin the body, and every thread inside call() is
\* counted in flight.
C20_NoCheckPassedAfterFlag ==
    [][\A c \in Cells :
          cell[c] = "live"
              => /\ mark_deleted[c] => PassedCount(c)' = PassedCount(c)
                 /\ idle[c] = InCall(c)]_vars

\* C20 witness: the flag was set between the load of a call() and the
\* beginning of its body.
C20_Witness ==
    \E c \in Cells, t \in Threads :
        mark_deleted[c] /\ cell[c] = "live" /\ At(t, c, "checked")

\* C11: every teardown step of a fire_oneshot timer (marking the cell,
\* timer_delete, freeing the cell) is a step of a thread other than the
\* dispatch threads, taken after the handler has run and returned.
C11_TeardownOffFiringThread ==
    [][\A c \in Cells :
          (kind[c] = "oneshot"
             /\ (mark_deleted'[c] # mark_deleted[c]
                   \/ deletes'[c] # deletes[c]
                   \/ (cell'[c] = "freed" /\ cell[c] # "freed")))
          => /\ UNCHANGED threadVars
             /\ runs[c] = 1 /\ PassedCount(c) = 1
             /\ ~InHandler(c)
             /\ \A t \in Threads : ~At(t, c, "slot")]_vars

\* C11 witness: the teardown thread has marked the cell while the thread that
\* ran the handler is still inside the wrapper.
C11_Witness ==
    \E c \in Cells, t \in Threads :
        kind[c] = "oneshot" /\ mark_deleted[c] /\ At(t, c, "tail") /\ runs[c] = 1

\* C13: when a native call fails while a timer is scheduled, the operation
\* has failed with no Timer handle, no native timer left created or armed,
\* and the callback cell freed.
C13_FailureLeavesNothing ==
    \A c \in Cells :
        tpc[c] = "failed"
            => /\ reply[c] = "Err"
               /\ handle[c] = "None" /\ journal[c] = "None"
               /\ ~created[c] /\ ~armed[c]
               /\ cell[c] = "freed"

\* C12: default() constructs the process-wide queue exactly once, also when
\* the first calls race; every call returns that one queue; and the queue,
\* once constructed, is never replaced or torn down.
C12_DefaultQueueOnce ==
    [][/\ queues' <= 1
       /\ \A th \in Callers : got'[th] \in {0, DEFAULT_QUEUE'}
       /\ \A th \in Callers : dpc'[th] = "ret" => DEFAULT_QUEUE' = 1
       /\ DEFAULT_QUEUE # 0 => DEFAULT_QUEUE' = DEFAULT_QUEUE]_vars

\* C12 witness: first calls race: one thread is running the closure while
\* another is held inside call_once, and no queue exists yet.
C12_Witness ==
    /\ once = "Running"
    /\ queues = 0
    /\ \E t1 \in Callers : \E t2 \in Callers \ {t1} :
          dpc[t1] = "init" /\ dpc[t2] = "call_once"

\* C14: an operation that finds an internal channel unusable surfaces
\* SynchronizationBroken and does not panic: an expiry notification whose
\* forward to the quick worker fails (the worker is gone) neither panics
\* nor ends the process.
C14_ClosedChannelNoPanic ==
    [][\A c \in Cells :
          (fires'[c] # fires[c] /\ hint[c] = "Quick" /\ worker.pc = "dead")
          => ~sig_panic' /\ ~aborted']_vars

\* close_timer is running on cell c (after close() or inside drop).
Closing(c) == tpc[c] \in {"c_wait", "c_delete", "d_wait", "d_delete", "d_free"}

CloseStep(a) ==
    /\ tpc'[a] # tpc[a]
    /\ Closing(a) \/ tpc'[a] \in {"c_wait", "d_wait"}
    /\ ~aborted'

\* C16: closing timer A leaves every other timer B of the queue as it was:
\* no step of A's close_timer changes B's deleted flag, in-flight count,
\* handler body or armed state (nor B's cell, OS timer or pending
\* dispatches), and a firing of B is still dispatched and executed after A
\* was closed.
C16_CloseLeavesOthers ==
    /\ [][\A a \in Cells : \A b \in Cells \ {a} :
             CloseStep(a)
             => /\ mark_deleted'[b] = mark_deleted[b]
                /\ idle'[b] = idle[b]
                /\ f'[b] = f[b]
                /\ armed'[b] = armed[b]
                /\ created'[b] = created[b]
                /\ cell'[b] = cell[b]
                /\ UNCHANGED threadVars]_vars
    /\ \A n \in 1..MaxFires :
          \A a \in Cells : \A b \in Cells \ {a} :
             (Closed(a) /\ kind[b] = "timer" /\ fires[b] = n /\ ~mark_deleted[b])
                ~> (runs[b] = n \/ mark_deleted[b])

\* C16 witness: A was dropped and freed, and B, still armed and not marked,
\* is executing its handler for the second time.
C16_Witness ==
    \E a \in Cells : \E b \in Cells \ {a} :
        /\ tpc[a] = "gone"
        /\ fires[a] > 0
        /\ kind[b] = "timer" /\ armed[b] /\ ~mark_deleted[b]
        /\ worker = [pc |-> "handler", ctx |-> b]
        /\ runs[b] = 2
        /\ ~aborted

C18_SlowOverlap ==
    \A c \in Cells :
        (~aborted /\ hint[c] = "Slow" /\ cell[c] = "live")
        => /\ idle[c] = InCall(c)
           /\ (slow[c].checked > 0 /\ f[c] = "Mut") => ENABLED call_body("slow", c)
           /\ slow[c].entered > 0 => ENABLED call_check("slow", c)
           /\ slow[c].start > 0 => ENABLED slow_enter(c)

\* C18 witness: a periodic Slow timer has two invocations of its handler
\* executing at once, with an in-flight count of two.
C18_Witness ==
    \E c \in Cells :
        /\ kind[c] = "timer" /\ hint[c] = "Slow" /\ period[c] > 0
        /\ slow[c].handler >= 2
        /\ idle[c] >= 2
        /\ cell[c] = "live"
        /\ ~aborted

\* C19: wait_idle returns Ok exactly when the in-flight count was observed
\* zero before the timeout; otherwise, the timeout elapsed, it returns the
\* error SynchronizationBroken; and it waits once, without retrying.
C19_WaitIdleResult ==
    [][\A c \in Cells :
          (tpc[c] = "w_wait" /\ tpc'[c] # "w_wait")
          => /\ wait_result'[c] = "Ok" <=> idle[c] = 0
             /\ idle[c] # 0 => wait_result'[c] = "SynchronizationBroken"
             /\ wait_tries'[c] = 1
             /\ tpc'[c] = "owned"
             /\ idle'[c] = idle[c]]_vars

\* C19 witness: a wait_idle call has returned the error while an invocation
\* of the handler is still executing.
C19_Witness ==
    \E c \in Cells :
        /\ wait_result[c] = "SynchronizationBroken"
        /\ wait_tries[c] = 1
        /\ tpc[c] = "owned"
        /\ InHandler(c)

\* C21: every destruction of a timer performs its steps in the order
\* (1) mark the cell deleted, (2) disarm the OS timer, (3) wait for the
\* in-flight count to reach zero, (4) release the native handle, (5) free
\* the cell: the wait runs on a marked cell whose OS timer is disarmed, the
\* native timer is released only after the wait, and the cell is freed only
\* after the release.
C21_DestructionOrder ==
    \A c \in Cells :
        /\ Closing(c) => mark_deleted[c]
        /\ tpc[c] \in {"c_wait", "d_wait"} => ~armed[c]
        /\ tpc[c] \in {"c_wait", "d_wait"} => deletes[c] = 0
        /\ tpc[c] \in {"d_free", "gone"} => deletes[c] > 0

\* C22: the closure of a cell built by new_once is executed at most once,
\* also when call() is entered by several dispatch threads at once: a
\* concurrent entrant finds the body gone and runs nothing.
C22_OnceBodyAtMostOnce ==
    \A c \in Cells : kind[c] = "once" => runs[c] <= 1

\* C23: wait_idle is the only point at which a thread of the library blocks,
\* and every wait is bounded by a timeout: a thread that waits (close_timer
\* on the in-flight count, the fire_oneshot wrapper on the handoff slot, a
\* scheduling call on the reply of the creation thread) can always go on,
\* because what it waits for is there or because its time is up.
C23_EveryWaitBounded ==
    \A c \in Cells :
        ~aborted =>
        /\ tpc[c] \in {"c_wait", "d_wait"}
              => ENABLED (close_wait(c) \/ close_timeout(c))
        /\ \A t \in Threads : At(t, c, "slot") => ENABLED wrapper_spawn(t, c)
        /\ tpc[c] = "requested"
              => ENABLED (schedule_timer_return(c) \/ fire_oneshot_return(c))

\* The wrapper of cell c is past the handler, waiting on or reading the slot.
AtSlot(c) == \E t \in Threads : At(t, c, "slot")

\* C24: the handoff slot of a fire_oneshot is written exactly once, by the
\* scheduling call and only after the OS accepted the timer, and read
\* exactly once, by the handler's wrapper; a wrapper that reaches the slot
\* before it is filled waits for it; and the teardown that the read starts
\* works on the timer and the cell that were written.
C24_SlotWrittenOnceReadOnce ==
    /\ [][\A c \in Cells :
             /\ (journal[c] = "None" /\ journal'[c] = "Some")
                => /\ kind[c] = "oneshot" /\ reply[c] = "Ok" /\ created[c]
                   /\ tpc[c] = "requested" /\ tpc'[c] = "detached"
             /\ (journal[c] = "Some" /\ journal'[c] = "None")
                => /\ tpc[c] = "detached" /\ tpc'[c] = "t_start"
                   /\ AtSlot(c) /\ ~AtSlot(c)'
             /\ (AtSlot(c) /\ ~AtSlot(c)' /\ ~aborted')
                => journal[c] = "Some" /\ journal'[c] = "None"
             /\ tpc[c] \in {"detached", "t_start", "d_wait", "d_delete", "d_free", "gone"}
                => tpc'[c] \notin {"requested", "unused"}]_vars
    /\ [](\A c \in Cells :
             (kind[c] = "oneshot" /\ tpc[c] \in {"t_start", "d_wait", "d_delete"})
             => journal[c] = "None" /\ created[c] /\ cell[c] = "live" /\ reply[c] = "Ok")

\* C24 witness: the handler of a fire_oneshot has run and its wrapper waits
\* on the slot, which the scheduling call has not filled yet.
C24_Witness ==
    \E c \in Cells :
        /\ kind[c] = "oneshot"
        /\ AtSlot(c)
        /\ journal[c] = "None"
        /\ tpc[c] = "requested"
        /\ runs[c] = 1

\* C25: the OS notification handler never executes a user handler itself:
\* an expiry of a Slow timer only spawns a dedicated thread, which has not
\* entered call() yet, and an expiry of any other timer only appends the
\* cell's token to the quick-dispatch channel; no body starts, no in-flight
\* count moves and no other thread advances in that step.
C25_NotificationOnlyDispatches ==
    [][\A c \in Cells :
          fires'[c] # fires[c]
          => /\ runs' = runs /\ idle' = idle /\ f' = f
             /\ worker' = worker
             /\ IF hint[c] = "Slow"
                THEN /\ slow' = [slow EXCEPT ![c].start = @ + 1]
                     /\ quick_queue' = quick_queue
                ELSE /\ slow' = slow
                     /\ quick_queue' = Append(quick_queue, c)]_vars

\* C25 witness: a Slow timer and a Quick timer have both expired, the one
\* has a spawned thread and the other a token in the channel, and neither
\* handler has been entered.
C25_Witness ==
    \E c \in Cells : \E d \in Cells \ {c} :
        /\ hint[c] = "Slow" /\ fires[c] = 1 /\ slow[c].start = 1
        /\ hint[d] = "Quick" /\ fires[d] = 1 /\ quick_queue = << d >>
        /\ runs[c] = 0 /\ runs[d] = 0 /\ idle[c] = 0 /\ idle[d] = 0

\* C26: when disarming the OS timer fails during teardown the failure is
\* logged and the teardown goes on to the wait (and from there to the
\* release): the step that follows the disarm is the wait, whatever the
\* disarm returned, and the teardown never ends in a panic.
C26_DisarmFailureContinues ==
    /\ [][\A c \in Cells :
             (tpc[c] = "w_disarm" /\ tpc'[c] # "w_disarm") => tpc'[c] = "w_wait"]_vars
    /\ [](\A c \in Cells : tpc[c] # "panicked")

C28_CoreOutlivesHandlesAndCells ==
    /\ [](core = "alive" <=> (handles > 0 \/ \E c \in Cells : Unfreed(c)))
    /\ [][core = "released" => core' = "released"]_vars
    /\ [][(core = "alive" /\ core' = "released")
             => /\ handles' = 0
                /\ \A c \in Cells : ~Unfreed(c)'
                /\ \A c \in Cells : ~InHandler(c) \/ cell[c] # "live"]_vars

\* C28 witness: the last handle of the queue was dropped while a handler is
\* running, and the core is alive, kept by the handler's cell.
C28_Witness ==
    \E c \in Cells :
        /\ handles = 0
        /\ InHandler(c)
        /\ cell[c] = "live"
        /\ core = "alive"

\* C28 witness, continued: after the last cell was freed the core is gone.
C28_Released ==
    /\ core = "released"
    /\ \E c \in Cells : tpc[c] = "gone" /\ runs[c] > 0

\* C29: in every reachable state the in-flight counter of a cell equals the
\* number of threads inside call() on the cell; it is never negative; and
\* every exit from call() decrements it: the return of the handler, the
\* return of a call that found the cell deleted or without a body, and the
\* unwinding of a panic of the closure.
C29_InFlightCountsCalls ==
    /\ [](\A c \in Cells : idle[c] = InCall(c) /\ idle[c] >= 0)
    /\ [][\A c \in Cells :
             /\ InCall(c)' = InCall(c) - 1 => idle'[c] = idle[c] - 1
             /\ InCall(c)' = InCall(c) + 1 => idle'[c] = idle[c] + 1]_vars

\* C29 witness: the closure of a Quick timer panicked on the quick worker,
\* which is gone, and the in-flight count of the cell is back at zero.
C29_Witness ==
    \E c \in Cells :
        /\ worker.pc = "dead"
        /\ hint[c] = "Quick" /\ runs[c] = 1 /\ fires[c] = 1
        /\ cell[c] = "live"
        /\ idle[c] = 0

\* C30: a cell token that travels through the dispatch layer (queued in the
\* quick-dispatch channel, or captured by a spawned thread) is never
\* dereferenced after its cell was freed: no thread enters call() on a
\* freed cell.
C30_NoDereferenceAfterFree ==
    [][\A c \in Cells : InCall(c)' > InCall(c) => cell[c] # "freed"]_vars

\* C31: whenever a native timer is armed and can deliver an expiry
\* notification, the callback cell its notifications point to has been
\* created and is not freed yet: the cell exists before the native create
\* call and the native timer is released before the cell is freed.
C31_ArmedTimerHasLiveCell ==
    \A c \in Cells : armed[c] => Unfreed(c)

\* C32: the bound of the teardown wait is the duration carried by the hint
\* when the hint is SlowFunction(d), and the default acceptable execution
\* time of one second when the hint is QuickFunction or absent: the wait
\* never lasts longer than that, and it times out exactly when that time has
\* passed.
C32_TeardownWaitBound ==
    \A c \in Cells :
        LET bound == IF hint[c] = "Slow" THEN hint_time[c]
                     ELSE DEFAULT_ACCEPTABLE_EXECUTION_TIME
        IN  /\ tpc[c] \in {"c_wait", "d_wait"} => now - closedAt[c] <= bound
            /\ timed_out[c] => now - closedAt[c] = bound

\* C32 witness: a wait timed out on a SlowFunction hint whose duration is
\* longer than the default, after exactly that duration.
C32_Witness ==
    \E c \in Cells :
        /\ timed_out[c]
        /\ hint[c] = "Slow"
        /\ hint_time[c] > DEFAULT_ACCEPTABLE_EXECUTION_TIME
        /\ now - closedAt[c] = hint_time[c]

\* C32, the other hints: a wait timed out after one second on a timer that
\* was scheduled with no hint.
C32_WitnessDefault ==
    \E c \in Cells :
        /\ timed_out[c]
        /\ hint[c] = "None"
        /\ now - closedAt[c] = DEFAULT_ACCEPTABLE_EXECUTION_TIME

\* C33: native timer creation is serialized on the creation thread of the
\* queue, one request at a time in arrival order, and every schedule call
\* receives the result of its own request, also when several threads
\* schedule on the same queue concurrently: a step that creates a native
\* timer or produces a result does so for the oldest pending request and for
\* no other, and a schedule call returns only after its own request was
\* served, with the outcome of that request.
C33_CreationSerializedOwnResult ==
    [][\A c \in Cells :
          /\ (reply'[c] # reply[c] \/ created'[c] # created[c]) /\ deletes'[c] = deletes[c]
             => /\ timer_queue # << >> /\ c = Head(timer_queue)
                /\ timer_queue' = Tail(timer_queue)
                /\ \A d \in Cells \ {c} : reply'[d] = reply[d] /\ created'[d] = created[d]
          /\ (tpc[c] = "requested" /\ tpc'[c] # "requested")
             => /\ reply[c] # "none"
                /\ reply[c] = "Ok" => tpc'[c] \in {"owned", "detached"}
                /\ reply[c] = "Err" => tpc'[c] = "failed"]_vars

\* C34: ManualResetEvent::wait_one(timeout) returns within the timeout also
\* when the event is never set, with true if the event is set when it
\* returns and false once the timeout has elapsed without a set: no thread
\* is inside wait_one for longer than the timeout, and the value returned is
\* the state of the event at the return, false only with the timeout used up.
C34_WaitOneWithinTimeout ==
    /\ [](waiter.pc \in {"loop", "cond_wait"}
          => now - waiter.start <= waiter.timeout)
    /\ [][(waiter.pc # "returned" /\ waiter'.pc = "returned")
          => /\ waiter'.ret = event
             /\ ~waiter'.ret => now - waiter.start >= waiter.timeout]_vars

\* C35: when the last reference to the core of a queue made by new() is
\* dropped (its handles and its cells are gone), both threads of the queue,
\* the timer-creation thread and the quick-dispatch worker, eventually exit
\* (unless the process was aborted), and they exit for that reason only:
\* neither loop ends while the core, which holds the senders, is alive.
C35_WorkersExitAfterCore ==
    /\ (core = "released")
          ~> (aborted \/ (creator = "exited" /\ worker.pc = "exited"))
    /\ []((creator = "exited" \/ worker.pc = "exited") => core = "released")

\* C35 witness: the core was released while the quick worker was still
\* inside an invocation, and later both threads have exited.
C35_Witness ==
    /\ core = "released"
    /\ creator = "exited"
    /\ worker.pc = "exited"
    /\ \E c \in Cells : runs[c] > 0 /\ cell[c] = "freed"
    /\ ~aborted

\* C36: in the event-based callback cell the idle event is in the set state
\* exactly when no invocation of the handler is executing, also when two
\* invocations of the same handler overlap: the first invocation to finish
\* does not set the event while another is still running.
C36_EventSetIffNoInvocation ==
    \A c \in Cells :
        cell[c] = "live" => ((idle[c] = 0) <=> (slow[c].handler = 0))

====
